---- MODULE Spec2Model ----
(***************************************************************************)
(* Model of qdrant-lib: an embedded engine (TableOfContent) owned by one   *)
(* worker thread, driven through a bounded mpsc queue of (request, reply   *)
(* slot) envelopes by a cloneable client handle.                           *)
(*                                                                         *)
(* Two families of definitions:                                            *)
(*   - the dispatcher (src/ops/*.rs, the Handler impls) as pure operators  *)
(*     over a request, and an oracle that fixes what the engine answers to *)
(*     the i-th call made on its handle;                                   *)
(*   - the actor life cycle (src/instance.rs, src/client.rs) as a state    *)
(*     machine over the worker thread, its dispatch tasks, the queue, the  *)
(*     client handles and the calls in progress.                           *)
(***************************************************************************)
EXTENDS Integers, Sequences, FiniteSets, TLC

(***************************************************************************)
(* Bounds                                                                  *)
(***************************************************************************)
\* longest list of searches in a batch request
MaxBatch == 3
\* the queue capacity used in the model (QDRANT_CHANNEL_BUFFER is 1024)
ChannelBuffer == 1
\* number of client calls (envelopes) in one execution
MaxCalls == 2
\* number of clones of the client handle
MaxHandles == 2

(***************************************************************************)
(* Constants of the program                                                *)
(***************************************************************************)
\* the capacity of the request channel; the model's queue holds
\* ChannelBuffer envelopes
QDRANT_CHANNEL_BUFFER == 1024

(***************************************************************************)
(* Option, Result                                                          *)
(***************************************************************************)
None == [tag |-> "None"]
Some(x) == [tag |-> "Some", v |-> x]
Ok(x) == [tag |-> "Ok", v |-> x]
Err(e) == [tag |-> "Err", e |-> e]
IsOk(r) == r.tag = "Ok"
IsErr(r) == r.tag = "Err"

(***************************************************************************)
(* Shard selectors                                                         *)
(***************************************************************************)
\* ShardKeySelector: one key or a list of keys
ShardKeySelectors ==
    { [kind |-> "ShardKey", key |-> "k1"],
      [kind |-> "ShardKeys", keys |-> <<"k1", "k2">>] }
ShardKeyOpts == {None} \cup { Some(k) : k \in ShardKeySelectors }
ShardIds == {0, 1}
ShardIdOpts == {None} \cup { Some(i) : i \in ShardIds }

\* ShardSelectorInternal
SelAll == [tag |-> "All"]
SelEmpty == [tag |-> "Empty"]
SelShardId(id) == [tag |-> "ShardId", id |-> id]
\* ShardSelectorInternal::from(ShardKeySelector)
SelFromKey(sk) ==
    IF sk.kind = "ShardKey"
    THEN [tag |-> "ShardKey", key |-> sk.key]
    ELSE [tag |-> "ShardKeys", keys |-> sk.keys]

shard_selector_default(shard_key) ==
    IF shard_key.tag = "None" THEN SelEmpty ELSE SelFromKey(shard_key.v)

\* ops/mod.rs shard_selector, and the inlined matches of ops/query.rs
shard_selector(shard_key) ==
    IF shard_key.tag = "None" THEN SelAll ELSE SelFromKey(shard_key.v)

\* the value a panicking evaluation yields
Panic == [tag |-> "Panic"]

get_shard_selector_for_update_swapped(shard_selection, shard_key, debug) ==
    IF shard_key.tag = "Some" THEN SelFromKey(shard_key.v)
    ELSE IF shard_selection.tag = "Some" THEN SelShardId(shard_selection.v)
    ELSE SelEmpty

\* ops/points.rs get_shard_selector_for_update; debug is cfg(debug_assertions)
get_shard_selector_for_update(shard_selection, shard_key, debug) ==
    CASE shard_selection.tag = "Some" /\ shard_key.tag = "None" ->
            SelShardId(shard_selection.v)
      [] shard_selection.tag = "Some" /\ shard_key.tag = "Some" ->
            IF debug THEN Panic ELSE SelShardId(shard_selection.v)
      [] shard_selection.tag = "None" /\ shard_key.tag = "Some" ->
            SelFromKey(shard_key.v)
      [] shard_selection.tag = "None" /\ shard_key.tag = "None" ->
            SelEmpty

(***************************************************************************)
(* The engine as seen by the dispatcher                                    *)
(*                                                                         *)
(* The engine is opaque: the oracle fixes, for the i-th call a handler     *)
(* makes, whether the engine answers with a value or reports an error.     *)
(***************************************************************************)
\* what the engine may answer to one call
Outcomes == {"Ok", "OkEmpty", "NotFound", "BadRequest"}
EngineErrorKinds == {"NotFound", "BadRequest"}
\* the most calls one handler makes: two, or one per search of a batch
OracleLen == IF MaxBatch > 2 THEN MaxBatch ELSE 2
Oracles == [1..OracleLen -> Outcomes]

\* one call on the engine handle (recv = "toc") or on an object it returned
EngineCall(recv, method, op, shard) ==
    [recv |-> recv, method |-> method, op |-> op, shard |-> shard,
     batch |-> <<>>]
\* a call that carries a list of searches, each with its selector
BatchCall(method, shard, batch) ==
    [recv |-> "toc", method |-> method, op |-> "-", shard |-> shard,
     batch |-> batch]
NoShard == [tag |-> "NA"]

\* the error the engine reports at its i-th call
EngineErr(oracle, i) == [kind |-> oracle[i], at |-> i]
\* an error the dispatcher makes up itself
OwnErr(kind, msg) == [kind |-> kind, at |-> 0, msg |-> msg]
\* the value the engine returns from its i-th call
EngineVal(i) == [call |-> i]
\* the value of a batch call: one result per search, none when OkEmpty
EngineBatchVal(oracle, i, batch) ==
    IF oracle[i] = "OkEmpty" THEN <<>>
    ELSE [j \in 1..Len(batch) |-> [call |-> i, sid |-> batch[j].sid]]

EngineRet(oracle, i) ==
    IF oracle[i] \in EngineErrorKinds
    THEN Err(EngineErr(oracle, i)) ELSE Ok(EngineVal(i))
EngineBatchRet(oracle, i, batch) ==
    IF oracle[i] \in EngineErrorKinds
    THEN Err(EngineErr(oracle, i)) ELSE Ok(EngineBatchVal(oracle, i, batch))

\* the run of a handler: its result and the engine calls it made, in order
Run(res, calls) == [res |-> res, calls |-> calls]
\* `toc.f(..).await` as the whole body
OneCall(call, oracle) == Run(EngineRet(oracle, 1), <<call>>)
\* `toc.f(..)?; toc.g(..).await`
TwoCalls(c1, c2, oracle) ==
    IF oracle[1] \in EngineErrorKinds
    THEN Run(Err(EngineErr(oracle, 1)), <<c1>>)
    ELSE Run(EngineRet(oracle, 2), <<c1, c2>>)

(***************************************************************************)
(* Requests                                                                *)
(***************************************************************************)
Families == {"Collection", "Alias", "Points", "Query"}
CollectionOps == {"List", "Get", "Create", "Update", "Delete"}
AliasOps == {"List", "Get", "Create", "Delete", "Rename"}
PointsOps == {"Get", "Count", "Delete", "Upsert", "UpdateVectors",
              "DeleteVectors", "SetPayload", "OverwritePayload",
              "DeletePayload", "ClearPayload"}
QueryOps == {"Search", "SearchBatch", "SearchGroup", "Recommend",
             "RecommendBatch", "RecommendGroup"}
PointsSelectors == {"PointIdsSelector", "FilterSelector"}

\* the lists of searches of a batch: the i-th search has sid i
RECURSIVE SearchLists(_)
SearchLists(n) ==
    IF n = 0 THEN { <<>> }
    ELSE LET shorter == SearchLists(n - 1)
         IN shorter \cup
            { Append(l, [sid |-> Len(l) + 1, shard_key |-> k]) :
                l \in { s \in shorter : Len(s) = n - 1 }, k \in ShardKeyOpts }

\* a request: family, variant and the arguments the dispatcher looks at
Req(family, op, shard_key, sel, filter, points, searches) ==
    [family |-> family, op |-> op, shard_key |-> shard_key, sel |-> sel,
     filter |-> filter, points |-> points, searches |-> searches]
PlainReq(family, op) ==
    Req(family, op, None, "PointIdsSelector", FALSE, FALSE, <<>>)

Requests ==
    { PlainReq("Collection", op) : op \in CollectionOps }
    \cup { PlainReq("Alias", op) : op \in AliasOps }
    \cup { Req("Points", op, k, "PointIdsSelector", FALSE, FALSE, <<>>) :
             op \in PointsOps \ {"Delete", "ClearPayload", "DeleteVectors"},
             k \in ShardKeyOpts }
    \cup { Req("Points", op, k, s, FALSE, FALSE, <<>>) :
             op \in {"Delete", "ClearPayload"}, k \in ShardKeyOpts,
             s \in PointsSelectors }
    \cup { Req("Points", "DeleteVectors", k, "PointIdsSelector", f, p, <<>>) :
             k \in ShardKeyOpts, f \in BOOLEAN, p \in BOOLEAN }
    \cup { Req("Query", op, k, "PointIdsSelector", FALSE, FALSE, <<>>) :
             op \in {"Search", "SearchGroup", "Recommend", "RecommendGroup"},
             k \in ShardKeyOpts }
    \cup { Req("Query", op, None, "PointIdsSelector", FALSE, FALSE, l) :
             op \in {"SearchBatch", "RecommendBatch"},
             l \in SearchLists(MaxBatch) }

(***************************************************************************)
(* ops/points.rs: the update helpers                                       *)
(***************************************************************************)
\* `toc.update(collection_name, collection_operation, .., shard_selector)`
\* as the last expression; a panic of the selector resolution unwinds
UpdateCall(operation, shard, oracle) ==
    IF shard = Panic THEN Run(Panic, <<>>)
    ELSE OneCall(EngineCall("toc", "update", operation, shard), oracle)

do_upsert_points_pinned(req, shard_selection, oracle, debug) ==
    UpdateCall("UpsertPoints",
        get_shard_selector_for_update(Some(0), req.shard_key, debug),
        oracle)

do_upsert_points(req, shard_selection, oracle, debug) ==
    UpdateCall("UpsertPoints",
        get_shard_selector_for_update(shard_selection, req.shard_key, debug),
        oracle)

do_delete_points(req, shard_selection, oracle, debug) ==
    LET point_operation ==
            IF req.sel = "PointIdsSelector" THEN "DeletePoints"
            ELSE "DeletePointsByFilter"
    IN UpdateCall(point_operation,
        get_shard_selector_for_update(shard_selection, req.shard_key, debug),
        oracle)

do_update_vectors(req, shard_selection, oracle, debug) ==
    UpdateCall("UpdateVectors",
        get_shard_selector_for_update(shard_selection, req.shard_key, debug),
        oracle)

do_delete_vectors_else_if(req, shard_selection, oracle, debug) ==
    LET sel == get_shard_selector_for_update(shard_selection, req.shard_key,
                                             debug)
        byFilter == EngineCall("toc", "update", "DeleteVectorsByFilter", sel)
        byPoints == EngineCall("toc", "update", "DeleteVectors", sel)
    IN  IF sel = Panic THEN Run(Panic, <<>>)
        ELSE IF req.filter THEN OneCall(byFilter, oracle)
        ELSE IF req.points THEN OneCall(byPoints, oracle)
        ELSE Run(Err(OwnErr("BadRequest", "No filter or points provided")),
                 <<>>)

do_delete_vectors_unchecked(req, shard_selection, oracle, debug) ==
    LET sel == get_shard_selector_for_update(shard_selection, req.shard_key,
                                             debug)
        byFilter == EngineCall("toc", "update", "DeleteVectorsByFilter", sel)
        byPoints == EngineCall("toc", "update", "DeleteVectors", sel)
    IN  IF sel = Panic THEN Run(Panic, <<>>)
        ELSE IF req.filter /\ req.points
            THEN TwoCalls(byFilter, byPoints, oracle)
        ELSE IF req.filter THEN OneCall(byFilter, oracle)
        ELSE OneCall(byPoints, oracle)

do_delete_vectors(req, shard_selection, oracle, debug) ==
    LET sel == get_shard_selector_for_update(shard_selection, req.shard_key,
                                             debug)
        byFilter == EngineCall("toc", "update", "DeleteVectorsByFilter", sel)
        byPoints == EngineCall("toc", "update", "DeleteVectors", sel)
    IN  IF sel = Panic THEN Run(Panic, <<>>)
        ELSE IF req.filter /\ req.points
            THEN TwoCalls(byFilter, byPoints, oracle)
        ELSE IF req.filter THEN OneCall(byFilter, oracle)
        ELSE IF req.points THEN OneCall(byPoints, oracle)
        ELSE Run(Err(OwnErr("BadRequest", "No filter or points provided")),
                 <<>>)

do_set_payload(req, shard_selection, oracle, debug) ==
    UpdateCall("SetPayload",
        get_shard_selector_for_update(shard_selection, req.shard_key, debug),
        oracle)

do_overwrite_payload(req, shard_selection, oracle, debug) ==
    UpdateCall("OverwritePayload",
        get_shard_selector_for_update(shard_selection, req.shard_key, debug),
        oracle)

do_delete_payload(req, shard_selection, oracle, debug) ==
    UpdateCall("DeletePayload",
        get_shard_selector_for_update(shard_selection, req.shard_key, debug),
        oracle)

do_clear_payload_drops_key(req, shard_selection, oracle, debug) ==
    LET point_operation ==
            IF req.sel = "PointIdsSelector" THEN "ClearPayload"
            ELSE "ClearPayloadByFilter"
    IN UpdateCall(point_operation,
        get_shard_selector_for_update(shard_selection, None, debug),
        oracle)

do_clear_payload(req, shard_selection, oracle, debug) ==
    LET point_operation ==
            IF req.sel = "PointIdsSelector" THEN "ClearPayload"
            ELSE "ClearPayloadByFilter"
    IN UpdateCall(point_operation,
        get_shard_selector_for_update(shard_selection, req.shard_key, debug),
        oracle)

(***************************************************************************)
(* ops/collections.rs                                                      *)
(***************************************************************************)
do_get_collection(req, shard_key, oracle) ==
    TwoCalls(EngineCall("toc", "get_collection", "-", NoShard),
             EngineCall("collection", "info", "-", shard_selector(shard_key)),
             oracle)

do_list_aliases(oracle) ==
    OneCall(EngineCall("toc", "list_aliases", "-", NoShard), oracle)

do_list_collection_aliases(oracle) ==
    OneCall(EngineCall("toc", "collection_aliases", "-", NoShard), oracle)

\* `let resp = ...?; Ok(Variant(resp))`: the variant is put around the value
\* of a successful run, anything else is handed on as it is
Respond(variant, run) ==
    IF IsOk(run.res)
    THEN Run(Ok([op |-> variant, payload |-> run.res.v]), run.calls)
    ELSE run

MetaOp(operation, oracle) ==
    OneCall(EngineCall("toc", "perform_collection_meta_op", operation,
                       NoShard), oracle)

CollectionRequest_handle(req, oracle) ==
    CASE req.op = "List" ->
            \* all_collections() has no error to report
            Respond("List",
                Run(Ok(EngineVal(1)),
                    <<EngineCall("toc", "all_collections", "-", NoShard)>>))
      [] req.op = "Get" ->
            Respond("Get", do_get_collection(req, None, oracle))
      [] req.op = "Create" ->
            Respond("Create",
                TwoCalls(EngineCall("toc", "check_write_lock", "-", NoShard),
                         EngineCall("toc", "perform_collection_meta_op",
                                    "CreateCollection", NoShard),
                         oracle))
      [] req.op = "Update" ->
            Respond("Update", MetaOp("UpdateCollection", oracle))
      [] req.op = "Delete" ->
            Respond("Delete", MetaOp("DeleteCollection", oracle))

AliasRequest_handle(req, oracle) ==
    CASE req.op = "List" -> Respond("List", do_list_aliases(oracle))
      [] req.op = "Get" -> Respond("Get", do_list_collection_aliases(oracle))
      [] req.op = "Create" ->
            Respond("Create", MetaOp("ChangeAliases:CreateAlias", oracle))
      [] req.op = "Delete" ->
            Respond("Delete", MetaOp("ChangeAliases:DeleteAlias", oracle))
      [] req.op = "Rename" ->
            Respond("Rename", MetaOp("ChangeAliases:RenameAlias", oracle))

PointsRequest_handle_misrouted(req, oracle, debug) ==
    CASE req.op = "Get" ->
            Respond("Get",
                OneCall(EngineCall("toc", "retrieve", "-",
                                   shard_selector(req.shard_key)), oracle))
      [] req.op = "Count" ->
            Respond("Count",
                OneCall(EngineCall("toc", "count", "-",
                                   shard_selector(req.shard_key)), oracle))
      [] req.op = "Delete" ->
            Respond("Delete", do_delete_points(req, None, oracle, debug))
      [] req.op = "Upsert" ->
            Respond("Upsert", do_upsert_points(req, None, oracle, debug))
      [] req.op = "UpdateVectors" ->
            Respond("UpdateVectors",
                do_update_vectors(req, None, oracle, debug))
      [] req.op = "DeleteVectors" ->
            Respond("DeleteVectors",
                do_delete_vectors(req, None, oracle, debug))
      [] req.op = "SetPayload" ->
            Respond("SetPayload", do_set_payload(req, None, oracle, debug))
      [] req.op = "OverwritePayload" ->
            Respond("SetPayload",
                do_overwrite_payload(req, None, oracle, debug))
      [] req.op = "DeletePayload" ->
            Respond("DeletePayload",
                do_delete_payload(req, None, oracle, debug))
      [] req.op = "ClearPayload" ->
            Respond("ClearPayload",
                do_clear_payload(req, None, oracle, debug))

PointsRequest_handle(req, oracle, debug) ==
    CASE req.op = "Get" ->
            Respond("Get",
                OneCall(EngineCall("toc", "retrieve", "-",
                                   shard_selector(req.shard_key)), oracle))
      [] req.op = "Count" ->
            Respond("Count",
                OneCall(EngineCall("toc", "count", "-",
                                   shard_selector(req.shard_key)), oracle))
      [] req.op = "Delete" ->
            Respond("Delete", do_delete_points(req, None, oracle, debug))
      [] req.op = "Upsert" ->
            Respond("Upsert", do_upsert_points(req, None, oracle, debug))
      [] req.op = "UpdateVectors" ->
            Respond("UpdateVectors",
                do_update_vectors(req, None, oracle, debug))
      [] req.op = "DeleteVectors" ->
            Respond("DeleteVectors",
                do_delete_vectors(req, None, oracle, debug))
      [] req.op = "SetPayload" ->
            Respond("SetPayload", do_set_payload(req, None, oracle, debug))
      [] req.op = "OverwritePayload" ->
            Respond("OverwritePayload",
                do_overwrite_payload(req, None, oracle, debug))
      [] req.op = "DeletePayload" ->
            Respond("DeletePayload",
                do_delete_payload(req, None, oracle, debug))
      [] req.op = "ClearPayload" ->
            Respond("ClearPayload",
                do_clear_payload(req, None, oracle, debug))

(***************************************************************************)
(* ops/query.rs                                                            *)
(***************************************************************************)
\* a search of a request, with its shard key resolved for reading
CoreRequest(search) ==
    [sid |-> search.sid, shard |-> shard_selector(search.shard_key)]

\* the reduce closure of do_search_batch_points: one engine call per batch
\* that is not empty
Reduce(shard, core_requests, res) ==
    IF core_requests = <<>> THEN res
    ELSE Append(res, BatchCall("core_search_batch", shard, core_requests))

\* batch_requests: consecutive requests with the same key share a batch
RECURSIVE batch_requests(_, _, _, _)
batch_requests(requests, current_key, current_batch, res) ==
    IF requests = <<>>
    THEN IF current_key.tag = "Some"
         THEN Reduce(current_key.v, current_batch, res) ELSE res
    ELSE LET req == Head(requests)
         IN IF current_key.tag = "Some" /\ current_key.v # req.shard
            THEN batch_requests(Tail(requests), Some(req.shard), <<req>>,
                                Reduce(current_key.v, current_batch, res))
            ELSE batch_requests(Tail(requests), Some(req.shard),
                                Append(current_batch, req), res)

RECURSIVE Flatten(_)
Flatten(lists) ==
    IF lists = <<>> THEN <<>> ELSE Head(lists) \o Flatten(Tail(lists))

\* try_join_all over the calls: the flattened values when all succeed, else
\* the error of the call that fails first (pick names it when several fail)
do_search_batch_points(requests, oracle, pick) ==
    LET calls == batch_requests(requests, None, <<>>, <<>>)
        failing == { i \in 1..Len(calls) : oracle[i] \in EngineErrorKinds }
        first == IF pick \in failing THEN pick
                 ELSE CHOOSE i \in failing : \A j \in failing : i <= j
    IN  IF failing # {}
        THEN Run(Err(EngineErr(oracle, first)), calls)
        ELSE Run(Ok(Flatten([i \in 1..Len(calls) |->
                        EngineBatchVal(oracle, i, calls[i].batch)])), calls)

do_core_search_batch_points(batch, shard_selection, oracle) ==
    Run(EngineBatchRet(oracle, 1, batch),
        <<BatchCall("core_search_batch", shard_selection, batch)>>)

do_core_search_points_masks(request, shard_selection, oracle) ==
    LET batch_res == do_core_search_batch_points(<<request>>,
                                                 shard_selection, oracle)
    IN  IF ~IsOk(batch_res.res) \/ batch_res.res.v = <<>>
        THEN Run(Err(OwnErr("ServiceError", "Empty search result")),
                 batch_res.calls)
        ELSE Run(Ok(Head(batch_res.res.v)), batch_res.calls)

do_core_search_points(request, shard_selection, oracle) ==
    LET batch_res == do_core_search_batch_points(<<request>>,
                                                 shard_selection, oracle)
    IN  IF ~IsOk(batch_res.res) THEN batch_res
        ELSE IF batch_res.res.v = <<>>
            THEN Run(Err(OwnErr("ServiceError", "Empty search result")),
                     batch_res.calls)
        ELSE Run(Ok(Head(batch_res.res.v)), batch_res.calls)

do_search_point_groups(shard_selection, oracle) ==
    OneCall(EngineCall("toc", "group", "SearchGroups", shard_selection),
            oracle)

do_recommend_point_groups(shard_selection, oracle) ==
    OneCall(EngineCall("toc", "group", "RecommendGroups", shard_selection),
            oracle)

do_recommend_batch_points(searches, oracle) ==
    LET requests == [i \in 1..Len(searches) |-> CoreRequest(searches[i])]
    IN Run(EngineBatchRet(oracle, 1, requests),
           <<BatchCall("recommend_batch", NoShard, requests)>>)

QueryRequest_handle(req, oracle, pick) ==
    CASE req.op = "Search" ->
            Respond("Search",
                do_core_search_points(
                    [sid |-> 1, shard |-> shard_selector(req.shard_key)],
                    shard_selector(req.shard_key), oracle))
      [] req.op = "SearchBatch" ->
            Respond("SearchBatch",
                do_search_batch_points(
                    [i \in 1..Len(req.searches) |->
                        CoreRequest(req.searches[i])],
                    oracle, pick))
      [] req.op = "SearchGroup" ->
            Respond("SearchGroup",
                do_search_point_groups(shard_selector(req.shard_key),
                                       oracle))
      [] req.op = "Recommend" ->
            Respond("Recommend",
                OneCall(EngineCall("toc", "recommend", "-",
                                   shard_selector(req.shard_key)), oracle))
      [] req.op = "RecommendBatch" ->
            Respond("RecommendBatch",
                do_recommend_batch_points(req.searches, oracle))
      [] req.op = "RecommendGroup" ->
            Respond("RecommendGroup",
                do_recommend_point_groups(shard_selector(req.shard_key),
                                          oracle))

(***************************************************************************)
(* instance.rs: Handler for QdrantRequest                                  *)
(***************************************************************************)
\* `let resp = req.handle(toc).await?; Ok(QdrantResponse::Family(resp))`
RespondFamily(family, run) ==
    IF IsOk(run.res)
    THEN Run(Ok([family |-> family, op |-> run.res.v.op,
                 payload |-> run.res.v.payload]), run.calls)
    ELSE run

QdrantRequest_handle(req, oracle, pick, debug) ==
    CASE req.family = "Collection" ->
            RespondFamily("Collection", CollectionRequest_handle(req, oracle))
      [] req.family = "Alias" ->
            RespondFamily("Alias", AliasRequest_handle(req, oracle))
      [] req.family = "Points" ->
            RespondFamily("Points", PointsRequest_handle(req, oracle, debug))
      [] req.family = "Query" ->
            RespondFamily("Query", QueryRequest_handle(req, oracle, pick))

(***************************************************************************)
(* client.rs: send_request and the client methods                          *)
(***************************************************************************)
\* QdrantError
ResponseRecv == [variant |-> "ResponseRecv"]
StorageError(e) == [variant |-> "Storage", e |-> e]

send_request_lossy(reply) ==
    IF reply.tag = "None" THEN Err(StorageError(OwnErr("NotFound", "lost")))
    ELSE IF IsOk(reply.v) THEN Ok(reply.v.v)
    ELSE Err(StorageError(reply.v.e))

\* the part of send_request after the envelope was sent or refused:
\* `let ret = rx.await?; Ok(ret?)`.  reply is None when the reply slot was
\* dropped unfulfilled, Some(result) when the task fulfilled it.
send_request(reply) ==
    IF reply.tag = "None" THEN Err(ResponseRecv)
    ELSE IF IsOk(reply.v) THEN Ok(reply.v.v)
    ELSE Err(StorageError(reply.v.e))

ClientMethods ==
    {"create_collection", "list_collections", "get_collection",
     "update_collection", "delete_collection", "create_alias",
     "list_aliases", "get_aliases", "delete_alias", "rename_alias",
     "get_points", "upsert_points", "delete_points", "count_points",
     "update_vectors", "delete_vectors", "set_payload", "delete_payload",
     "clear_payload", "search_points", "search_points_batch",
     "search_points_group_by", "recommend_points",
     "recommend_points_batch", "recommend_points_group_by"}

\* the request variant a client method builds
MethodRequest(method) ==
    CASE method = "create_collection" -> <<"Collection", "Create">>
      [] method = "list_collections" -> <<"Collection", "List">>
      [] method = "get_collection" -> <<"Collection", "Get">>
      [] method = "update_collection" -> <<"Collection", "Update">>
      [] method = "delete_collection" -> <<"Collection", "Delete">>
      [] method = "create_alias" -> <<"Alias", "Create">>
      [] method = "list_aliases" -> <<"Alias", "List">>
      [] method = "get_aliases" -> <<"Alias", "Get">>
      [] method = "delete_alias" -> <<"Alias", "Delete">>
      [] method = "rename_alias" -> <<"Alias", "Rename">>
      [] method = "get_points" -> <<"Points", "Get">>
      [] method = "upsert_points" -> <<"Points", "Upsert">>
      [] method = "delete_points" -> <<"Points", "Delete">>
      [] method = "count_points" -> <<"Points", "Count">>
      [] method = "update_vectors" -> <<"Points", "UpdateVectors">>
      [] method = "delete_vectors" -> <<"Points", "DeleteVectors">>
      [] method = "set_payload" -> <<"Points", "SetPayload">>
      [] method = "delete_payload" -> <<"Points", "DeletePayload">>
      [] method = "clear_payload" -> <<"Points", "ClearPayload">>
      [] method = "search_points" -> <<"Query", "Search">>
      [] method = "search_points_batch" -> <<"Query", "SearchBatch">>
      [] method = "search_points_group_by" -> <<"Query", "SearchGroup">>
      [] method = "recommend_points" -> <<"Query", "Recommend">>
      [] method = "recommend_points_batch" -> <<"Query", "RecommendBatch">>
      [] method = "recommend_points_group_by" ->
            <<"Query", "RecommendGroup">>

\* the request a client method sends, from the data its caller passes:
\* count_points and update_vectors set shard_key to None themselves
BuildRequest(method, data) ==
    LET variant == MethodRequest(method)
    IN Req(variant[1], variant[2],
           IF method \in {"count_points", "update_vectors"} THEN None
           ELSE data.shard_key,
           data.sel, data.filter, data.points, data.searches)

MethodAccepts_crossed(method) ==
    IF method = "set_payload" THEN <<"Points", "OverwritePayload">>
    ELSE MethodRequest(method)

\* the response variant the first match arm of a client method accepts
MethodAccepts(method) ==
    CASE method = "create_collection" -> <<"Collection", "Create">>
      [] method = "list_collections" -> <<"Collection", "List">>
      [] method = "get_collection" -> <<"Collection", "Get">>
      [] method = "update_collection" -> <<"Collection", "Update">>
      [] method = "delete_collection" -> <<"Collection", "Delete">>
      [] method = "create_alias" -> <<"Alias", "Create">>
      [] method = "list_aliases" -> <<"Alias", "List">>
      [] method = "get_aliases" -> <<"Alias", "Get">>
      [] method = "delete_alias" -> <<"Alias", "Delete">>
      [] method = "rename_alias" -> <<"Alias", "Rename">>
      [] method = "get_points" -> <<"Points", "Get">>
      [] method = "upsert_points" -> <<"Points", "Upsert">>
      [] method = "delete_points" -> <<"Points", "Delete">>
      [] method = "count_points" -> <<"Points", "Count">>
      [] method = "update_vectors" -> <<"Points", "UpdateVectors">>
      [] method = "delete_vectors" -> <<"Points", "DeleteVectors">>
      [] method = "set_payload" -> <<"Points", "SetPayload">>
      [] method = "delete_payload" -> <<"Points", "DeletePayload">>
      [] method = "clear_payload" -> <<"Points", "ClearPayload">>
      [] method = "search_points" -> <<"Query", "Search">>
      [] method = "search_points_batch" -> <<"Query", "SearchBatch">>
      [] method = "search_points_group_by" -> <<"Query", "SearchGroup">>
      [] method = "recommend_points" -> <<"Query", "Recommend">>
      [] method = "recommend_points_batch" -> <<"Query", "RecommendBatch">>
      [] method = "recommend_points_group_by" ->
            <<"Query", "RecommendGroup">>

\* CollectionError::NotFound held in QdrantError::Collection
IsCollectionNotFound(err) ==
    err.variant = "Collection" /\ err.e.kind = "NotFound"

ClientMethod_lenient(method, sent) ==
    IF IsOk(sent)
    THEN IF <<sent.v.family, sent.v.op>> = MethodAccepts(method)
         THEN Ok(IF method = "get_collection" THEN Some(sent.v.payload)
                 ELSE sent.v.payload)
         ELSE Panic
    ELSE IF method = "get_collection"
            /\ (sent.e.variant = "ResponseRecv"
                \/ sent.e.e.kind = "NotFound")
         THEN Ok(None)
    ELSE sent

\* the match on the result of send_request that ends every client method;
\* sent is that result
ClientMethod(method, sent) ==
    IF IsOk(sent)
    THEN IF <<sent.v.family, sent.v.op>> = MethodAccepts(method)
         THEN Ok(IF method = "get_collection" THEN Some(sent.v.payload)
                 ELSE sent.v.payload)
         ELSE Panic
    ELSE IF method = "get_collection" /\ IsCollectionNotFound(sent.e)
         THEN Ok(None)
    ELSE sent

(***************************************************************************)
(* State                                                                   *)
(***************************************************************************)
VARIABLES
    wpc,        \* where the "qdrant" thread of QdrantInstance::start is
    engine,     \* the TableOfContent: "none", "live" or "dropped"
    holders,    \* strong count of the Arc<TableOfContent>
    teardowns,  \* how many times a TableOfContent was dropped
    queue,      \* the mpsc channel: envelopes (call ids) not yet received
    txAlive,    \* the Sender held by the QdrantClient exists
    rxAlive,    \* the Receiver held by the worker exists
    termTx,     \* terminated_tx: "alive", "sent" or "dropped"
    termRx,     \* terminated_rx: "alive" or "dropped"
    signals,    \* how many times terminated_tx.send(()) was called
    handles,    \* strong count of the Arc<QdrantClient>
    dpc,        \* where Drop for QdrantClient is
    calls,      \* the client calls, by call id
    tasks,      \* the dispatch task spawned for each envelope, by call id
    atClose,    \* history: the envelopes queued or in dispatch when tx went
    d           \* a single dispatch followed from request to client result

lifeVars == <<wpc, engine, holders, teardowns, queue, txAlive, rxAlive,
              termTx, termRx, signals, handles, dpc, calls,
              tasks, atClose>>
vars == <<wpc, engine, holders, teardowns, queue, txAlive, rxAlive,
          termTx, termRx, signals, handles, dpc, calls,
          tasks, atClose, d>>

CallIds == 1..MaxCalls

\* the client method and caller data the calls of the life cycle use (what
\* a request does to the engine is followed in DispatchSpec)
LifeCalls ==
    { <<"get_collection", PlainReq("-", "-")>> }
\* what the engine answers in the life cycle: all calls succeed, or the
\* collection is not found
LifeOracles == { [i \in 1..OracleLen |-> o] : o \in {"Ok", "NotFound"} }

NoCall == [pc |-> "idle", method |-> "-", req |-> PlainReq("-", "-"),
           slot |-> "none", refused |-> FALSE, reply |-> None, ret |-> None]
\* late: the envelope was taken from the queue after the sender was dropped
NoTask == [pc |-> "none", res |-> None, late |-> FALSE]
DOff == [phase |-> "off"]

LifeInit ==
    /\ wpc = "starting"
    /\ engine = "none"
    /\ holders = 0
    /\ teardowns = 0
    /\ queue = <<>>
    /\ txAlive = TRUE
    /\ rxAlive = TRUE
    /\ termTx = "alive"
    /\ termRx = "alive"
    /\ signals = 0
    /\ handles = 1
    /\ dpc = "none"
    /\ calls = [c \in CallIds |-> NoCall]
    /\ tasks = [c \in CallIds |-> NoTask]
    /\ atClose = {}

\* the state when QdrantInstance::start has returned the client
Init ==
    /\ LifeInit
    /\ d = DOff

(***************************************************************************)
(* instance.rs: the "qdrant" thread                                        *)
(***************************************************************************)
WorkerStartOk_flushes ==
    /\ wpc = "starting"
    /\ wpc' = "recv"
    /\ engine' = "live"
    /\ holders' = 2
    /\ queue' = <<>>
    /\ UNCHANGED <<teardowns, txAlive, rxAlive, termTx, termRx,
                   signals, handles, dpc, calls, tasks, atClose, d>>

\* start_qdrant returned Ok: toc and toc_clone hold the engine
WorkerStartOk ==
    /\ wpc = "starting"
    /\ wpc' = "recv"
    /\ engine' = "live"
    /\ holders' = 2
    /\ UNCHANGED <<teardowns, queue, txAlive, rxAlive, termTx, termRx,
                   signals, handles, dpc, calls, tasks, atClose, d>>

WorkerStartFail_keeps_signal ==
    /\ wpc = "starting"
    /\ wpc' = "failed"
    /\ rxAlive' = FALSE
    /\ queue' = <<>>
    /\ calls' = [c \in CallIds |->
                    IF \E i \in 1..Len(queue) : queue[i] = c
                    THEN [calls[c] EXCEPT !.slot = "dropped"]
                    ELSE calls[c]]
    /\ UNCHANGED <<engine, holders, teardowns, txAlive, termTx, termRx,
                   signals, handles, dpc, tasks, atClose, d>>

WorkerStartFail_keeps_rx ==
    /\ wpc = "starting"
    /\ wpc' = "failed"
    /\ termTx' = "dropped"
    /\ UNCHANGED <<engine, holders, teardowns, queue, txAlive, rxAlive,
                   termRx, signals, handles, dpc, calls, tasks, atClose, d>>

\* start_qdrant returned Err: `?` leaves the closure, which drops rx (and
\* with it every queued envelope and its reply slot) and terminated_tx
WorkerStartFail ==
    /\ wpc = "starting"
    /\ wpc' = "failed"
    /\ rxAlive' = FALSE
    /\ queue' = <<>>
    /\ calls' = [c \in CallIds |->
                    IF \E i \in 1..Len(queue) : queue[i] = c
                    THEN [calls[c] EXCEPT !.slot = "dropped"]
                    ELSE calls[c]]
    /\ termTx' = "dropped"
    /\ UNCHANGED <<engine, holders, teardowns, txAlive, termRx, signals,
                   handles, dpc, tasks, atClose, d>>

WorkerRecv_serial ==
    /\ wpc = "recv"
    /\ queue # <<>>
    /\ \A e \in CallIds : tasks[e].pc \notin {"handle", "send", "release"}
    /\ LET c == Head(queue)
       IN /\ queue' = Tail(queue)
          /\ tasks' = [tasks EXCEPT ![c] = [pc |-> "handle", res |-> None,
                                            late |-> ~txAlive]]
    /\ holders' = holders + 1
    /\ UNCHANGED <<wpc, engine, teardowns, txAlive, rxAlive, termTx,
                   termRx, signals, handles, dpc, calls, atClose, d>>

\* rx.recv() yields an envelope: a task is spawned with a clone of toc
WorkerRecv ==
    /\ wpc = "recv"
    /\ queue # <<>>
    /\ LET c == Head(queue)
       IN /\ queue' = Tail(queue)
          /\ tasks' = [tasks EXCEPT ![c] = [pc |-> "handle", res |-> None,
                                            late |-> ~txAlive]]
    /\ holders' = holders + 1
    /\ UNCHANGED <<wpc, engine, teardowns, txAlive, rxAlive, termTx,
                   termRx, signals, handles, dpc, calls, atClose, d>>

WorkerClose_discards ==
    /\ wpc = "recv"
    /\ ~txAlive
    /\ wpc' = "unwrap"
    /\ rxAlive' = FALSE
    /\ holders' = holders - 1
    /\ queue' = <<>>
    /\ calls' = [c \in CallIds |->
                    IF \E i \in 1..Len(queue) : queue[i] = c
                    THEN [calls[c] EXCEPT !.slot = "dropped"]
                    ELSE calls[c]]
    /\ UNCHANGED <<engine, teardowns, txAlive, termTx, termRx, signals,
                   handles, dpc, tasks, atClose, d>>

\* rx.recv() yields None (no sender left, queue empty): block_on returns and
\* drops the future, which held rx and toc
WorkerClose ==
    /\ wpc = "recv"
    /\ queue = <<>>
    /\ ~txAlive
    /\ wpc' = "unwrap"
    /\ rxAlive' = FALSE
    /\ holders' = holders - 1
    /\ UNCHANGED <<engine, teardowns, queue, txAlive, termTx, termRx,
                   signals, handles, dpc, calls, tasks, atClose, d>>

SoleHolder_any(n) == n >= 1

SoleHolder_none(n) == n = 0

\* the holder count at which Arc::try_unwrap hands out the engine
SoleHolder(n) == n = 1

WorkerUnwrap_signal_first ==
    /\ wpc = "unwrap"
    /\ SoleHolder(holders)
    /\ wpc' = "signal"
    /\ holders' = 0
    /\ UNCHANGED <<engine, teardowns, queue, txAlive, rxAlive, termTx,
                   termRx, signals, handles, dpc, calls, tasks, atClose,
                   d>>

\* Arc::try_unwrap(toc_arc) is Ok: the thread owns the engine itself
WorkerUnwrap ==
    /\ wpc = "unwrap"
    /\ SoleHolder(holders)
    /\ wpc' = "teardown"
    /\ holders' = 0
    /\ UNCHANGED <<engine, teardowns, queue, txAlive, rxAlive, termTx,
                   termRx, signals, handles, dpc, calls, tasks, atClose,
                   d>>

\* Arc::try_unwrap(toc_arc) is Err: sleep 300ms and try again
WorkerWait ==
    /\ wpc = "unwrap"
    /\ ~SoleHolder(holders)
    /\ UNCHANGED vars

\* drop(toc)
WorkerDropToc ==
    /\ wpc = "teardown"
    /\ wpc' = "signal"
    /\ engine' = "dropped"
    /\ teardowns' = teardowns + 1
    /\ UNCHANGED <<holders, queue, txAlive, rxAlive, termTx, termRx,
                   signals, handles, dpc, calls, tasks, atClose, d>>

WorkerSignal_unsent ==
    /\ wpc = "signal"
    /\ wpc' = "exited"
    /\ termTx' = "dropped"
    /\ UNCHANGED <<engine, holders, teardowns, queue, txAlive, rxAlive,
                   termRx, signals, handles, dpc, calls, tasks, atClose, d>>

\* terminated_tx.send(()), which fails when the receiver is gone; then the
\* loop breaks and the thread ends
WorkerSignal ==
    /\ wpc = "signal"
    /\ wpc' = "exited"
    /\ signals' = signals + 1
    /\ termTx' = IF termRx = "alive" THEN "sent" ELSE "dropped"
    /\ UNCHANGED <<engine, holders, teardowns, queue, txAlive, rxAlive,
                   termRx, handles, dpc, calls, tasks, atClose, d>>

(***************************************************************************)
(* instance.rs: the dispatch task spawned for one envelope                 *)
(***************************************************************************)
TaskHandle_cancels(c) ==
    /\ tasks[c].pc = "handle"
    /\ IF calls[c].pc = "abandoned"
       THEN tasks' = [tasks EXCEPT ![c].pc = "release"]
       ELSE \E oracle \in LifeOracles, debug \in BOOLEAN :
              tasks' = [tasks EXCEPT
                          ![c].pc = "send",
                          ![c].res = Some(QdrantRequest_handle(
                                              calls[c].req, oracle, 1,
                                              debug).res)]
    /\ UNCHANGED <<wpc, engine, holders, teardowns, queue, txAlive,
                   rxAlive, termTx, termRx, signals, handles, dpc, calls,
                   atClose, d>>

\* `let res = msg.handle(&toc_clone).await;` (debug is the build's
\* cfg(debug_assertions))
TaskHandle(c) ==
    /\ tasks[c].pc = "handle"
    /\ \E oracle \in LifeOracles, debug \in BOOLEAN :
          tasks' = [tasks EXCEPT
                      ![c].pc = "send",
                      ![c].res = Some(QdrantRequest_handle(calls[c].req,
                                                           oracle, 1,
                                                           debug).res)]
    /\ UNCHANGED <<wpc, engine, holders, teardowns, queue, txAlive,
                   rxAlive, termTx, termRx, signals, handles, dpc, calls,
                   atClose, d>>

TaskSend_crossed(c) ==
    /\ tasks[c].pc = "send"
    /\ tasks' = [tasks EXCEPT ![c].pc = "release"]
    /\ LET others == { e \in CallIds \ {c} :
                         calls[e].pc = "await" /\ calls[e].slot = "open" }
           to == IF others = {} THEN c ELSE CHOOSE e \in others : TRUE
       IN calls' = [calls EXCEPT ![to] =
                       IF calls[to].pc = "abandoned"
                       THEN [calls[to] EXCEPT !.slot = "dropped"]
                       ELSE [calls[to] EXCEPT !.slot = "filled",
                                              !.reply = tasks[c].res]]
    /\ UNCHANGED <<wpc, engine, holders, teardowns, queue, txAlive,
                   rxAlive, termTx, termRx, signals, handles, dpc,
                   atClose, d>>

TaskSend_before_handle(c) ==
    /\ tasks[c].pc \in {"handle", "send"}
    /\ tasks' = [tasks EXCEPT ![c].pc = "release"]
    /\ calls' = [calls EXCEPT ![c] =
                    IF calls[c].pc = "abandoned"
                    THEN [calls[c] EXCEPT !.slot = "dropped"]
                    ELSE [calls[c] EXCEPT !.slot = "filled",
                                          !.reply = tasks[c].res]]
    /\ UNCHANGED <<wpc, engine, holders, teardowns, queue, txAlive,
                   rxAlive, termTx, termRx, signals, handles, dpc,
                   atClose, d>>

\* `resp_sender.send(res)`: the reply slot is fulfilled, unless its receiver
\* is gone, which is only logged
TaskSend(c) ==
    /\ tasks[c].pc = "send"
    /\ tasks' = [tasks EXCEPT ![c].pc = "release"]
    /\ calls' = [calls EXCEPT ![c] =
                    IF calls[c].pc = "abandoned"
                    THEN [calls[c] EXCEPT !.slot = "dropped"]
                    ELSE [calls[c] EXCEPT !.slot = "filled",
                                          !.reply = tasks[c].res]]
    /\ UNCHANGED <<wpc, engine, holders, teardowns, queue, txAlive,
                   rxAlive, termTx, termRx, signals, handles, dpc,
                   atClose, d>>

TaskRelease_keeps(c) ==
    /\ tasks[c].pc = "release"
    /\ tasks' = [tasks EXCEPT ![c].pc = "done"]
    /\ UNCHANGED <<wpc, engine, holders, teardowns, queue, txAlive,
                   rxAlive, termTx, termRx, signals, handles, dpc, calls,
                   atClose, d>>

\* the task's future ends and drops toc_clone
TaskRelease(c) ==
    /\ tasks[c].pc = "release"
    /\ tasks' = [tasks EXCEPT ![c].pc = "done"]
    /\ holders' = holders - 1
    /\ UNCHANGED <<wpc, engine, teardowns, queue, txAlive, rxAlive,
                   termTx, termRx, signals, handles, dpc, calls, atClose,
                   d>>

(***************************************************************************)
(* client.rs: the client handle and its calls                              *)
(***************************************************************************)
InProgress(c) == calls[c].pc \in {"send", "await"}

\* Arc::clone of the client (examples/indexer.rs)
CloneHandle ==
    /\ handles >= 1
    /\ handles < MaxHandles
    /\ handles' = handles + 1
    /\ UNCHANGED <<wpc, engine, holders, teardowns, queue, txAlive,
                   rxAlive, termTx, termRx, signals, dpc, calls, tasks,
                   atClose, d>>

ReleaseHandle_closes ==
    /\ handles >= 2
    /\ handles' = handles - 1
    /\ txAlive' = FALSE
    /\ UNCHANGED <<wpc, engine, holders, teardowns, queue, rxAlive,
                   termTx, termRx, signals, dpc, calls, tasks, atClose, d>>

\* a clone other than the last one is released
ReleaseHandle ==
    /\ handles >= 2
    /\ handles' = handles - 1
    /\ UNCHANGED <<wpc, engine, holders, teardowns, queue, txAlive,
                   rxAlive, termTx, termRx, signals, dpc, calls, tasks,
                   atClose, d>>

\* the last clone is released (no call borrows the client any more): Drop
\* starts and drops tx
DropClient ==
    /\ handles = 1
    /\ \A c \in CallIds : ~InProgress(c)
    /\ handles' = 0
    /\ txAlive' = FALSE
    /\ dpc' = "polling"
    /\ atClose' = { c \in CallIds :
                      \/ \E i \in 1..Len(queue) : queue[i] = c
                      \/ tasks[c].pc \in {"handle", "send", "release"} }
    /\ UNCHANGED <<wpc, engine, holders, teardowns, queue, rxAlive,
                   termTx, termRx, signals, calls, tasks, d>>

DropPollEmpty_takes ==
    /\ dpc \in {"polling", "sleeping"}
    /\ termTx = "alive"
    /\ dpc' = "sleeping"
    /\ termRx' = "dropped"
    /\ UNCHANGED <<wpc, engine, holders, teardowns, queue, txAlive,
                   rxAlive, termTx, signals, handles, calls, tasks,
                   atClose, d>>

\* terminated_rx.try_recv() is Err(Empty): the loop body is entered, or
\* entered again after thread::sleep(100ms)
DropPollEmpty ==
    /\ dpc \in {"polling", "sleeping"}
    /\ termTx = "alive"
    /\ dpc' = "sleeping"
    /\ UNCHANGED <<wpc, engine, holders, teardowns, queue, txAlive,
                   rxAlive, termTx, termRx, signals, handles, calls, tasks,
                   atClose, d>>

DropPollDone_impatient ==
    /\ dpc \in {"polling", "sleeping"}
    /\ dpc' = IF termTx = "sent" THEN "signalled" ELSE "closed"
    /\ termRx' = "dropped"
    /\ UNCHANGED <<wpc, engine, holders, teardowns, queue, txAlive,
                   rxAlive, termTx, signals, handles, calls, tasks,
                   atClose, d>>

\* terminated_rx.try_recv(), the first or one after a sleep, is Ok(()) or
\* Err(Closed): drop returns and the fields of the client, terminated_rx
\* among them, are dropped
DropPollDone ==
    /\ dpc \in {"polling", "sleeping"}
    /\ termTx # "alive"
    /\ dpc' = IF termTx = "sent" THEN "signalled" ELSE "closed"
    /\ termRx' = "dropped"
    /\ UNCHANGED <<wpc, engine, holders, teardowns, queue, txAlive,
                   rxAlive, termTx, signals, handles, calls, tasks,
                   atClose, d>>

\* a client method is called: it builds its request; send_request makes the
\* reply slot
CallStart(c, method, data) ==
    /\ calls[c].pc = "idle"
    /\ handles >= 1
    /\ calls' = [calls EXCEPT ![c] =
                    [pc |-> "send", method |-> method,
                     req |-> BuildRequest(method, data), slot |-> "open",
                     refused |-> FALSE, reply |-> None, ret |-> None]]
    /\ UNCHANGED <<wpc, engine, holders, teardowns, queue, txAlive,
                   rxAlive, termTx, termRx, signals, handles, dpc, tasks,
                   atClose, d>>

CallSend_unbounded(c) ==
    /\ calls[c].pc = "send"
    /\ IF ~rxAlive
       THEN /\ calls' = [calls EXCEPT ![c].pc = "await",
                                      ![c].refused = TRUE,
                                      ![c].slot = "dropped"]
            /\ queue' = queue
       ELSE /\ queue' = Append(queue, c)
            /\ calls' = [calls EXCEPT ![c].pc = "await"]
    /\ UNCHANGED <<wpc, engine, holders, teardowns, txAlive, rxAlive,
                   termTx, termRx, signals, handles, dpc, tasks, atClose,
                   d>>

CallSend_keeps_envelope(c) ==
    /\ calls[c].pc = "send"
    /\ IF ~rxAlive
       THEN /\ calls' = [calls EXCEPT ![c].pc = "await",
                                      ![c].refused = TRUE]
            /\ queue' = queue
       ELSE /\ Len(queue) < ChannelBuffer
            /\ queue' = Append(queue, c)
            /\ calls' = [calls EXCEPT ![c].pc = "await"]
    /\ UNCHANGED <<wpc, engine, holders, teardowns, txAlive, rxAlive,
                   termTx, termRx, signals, handles, dpc, tasks, atClose,
                   d>>

\* `sender.send((msg, tx)).await`: the envelope is queued when there is
\* room; when the receiver is gone the send fails, which is only logged, and
\* the envelope is dropped with its reply slot
CallSend(c) ==
    /\ calls[c].pc = "send"
    /\ IF ~rxAlive
       THEN /\ calls' = [calls EXCEPT ![c].pc = "await",
                                      ![c].refused = TRUE,
                                      ![c].slot = "dropped"]
            /\ queue' = queue
       ELSE /\ Len(queue) < ChannelBuffer
            /\ queue' = Append(queue, c)
            /\ calls' = [calls EXCEPT ![c].pc = "await"]
    /\ UNCHANGED <<wpc, engine, holders, teardowns, txAlive, rxAlive,
                   termTx, termRx, signals, handles, dpc, tasks, atClose,
                   d>>

CallReturn_retries(c) ==
    /\ calls[c].pc = "await"
    /\ calls[c].slot \in {"filled", "dropped"}
    /\ LET out == ClientMethod(calls[c].method,
                       send_request(IF calls[c].slot = "filled"
                                    THEN Some(calls[c].reply.v)
                                    ELSE None))
       IN calls' = [calls EXCEPT ![c] =
                       IF IsErr(out) /\ ~calls[c].refused
                          /\ tasks[c].pc = "none"
                       THEN [calls[c] EXCEPT !.pc = "send", !.slot = "open"]
                       ELSE [calls[c] EXCEPT !.pc = "returned",
                                             !.ret = Some(out)]]
    /\ UNCHANGED <<wpc, engine, holders, teardowns, queue, txAlive,
                   rxAlive, termTx, termRx, signals, handles, dpc, tasks,
                   atClose, d>>

\* `let ret = rx.await?; Ok(ret?)` and the match of the client method
CallReturn(c) ==
    /\ calls[c].pc = "await"
    /\ calls[c].slot \in {"filled", "dropped"}
    /\ calls' = [calls EXCEPT
                    ![c].pc = "returned",
                    ![c].ret = Some(ClientMethod(calls[c].method,
                        send_request(IF calls[c].slot = "filled"
                                     THEN Some(calls[c].reply.v)
                                     ELSE None)))]
    /\ UNCHANGED <<wpc, engine, holders, teardowns, queue, txAlive,
                   rxAlive, termTx, termRx, signals, handles, dpc, tasks,
                   atClose, d>>

\* the caller drops the future of a call whose envelope is sent (a timeout
\* around the call): the receiver of the reply slot is gone
CallAbandon(c) ==
    /\ calls[c].pc = "await"
    /\ calls' = [calls EXCEPT ![c].pc = "abandoned"]
    /\ UNCHANGED <<wpc, engine, holders, teardowns, queue, txAlive,
                   rxAlive, termTx, termRx, signals, handles, dpc, tasks,
                   atClose, d>>

Next ==
    \/ WorkerStartOk
    \/ WorkerStartFail
    \/ WorkerRecv
    \/ WorkerClose
    \/ WorkerUnwrap
    \/ WorkerWait
    \/ WorkerDropToc
    \/ WorkerSignal
    \/ \E c \in CallIds : TaskHandle(c)
    \/ \E c \in CallIds : TaskSend(c)
    \/ \E c \in CallIds : TaskRelease(c)
    \/ CloneHandle
    \/ ReleaseHandle
    \/ DropClient
    \/ DropPollEmpty
    \/ DropPollDone
    \/ \E c \in CallIds, call \in LifeCalls :
          CallStart(c, call[1], call[2])
    \/ \E c \in CallIds : CallSend(c)
    \/ \E c \in CallIds : CallReturn(c)
    \/ \E c \in CallIds : CallAbandon(c)

Spec == Init /\ [][Next]_vars

(***************************************************************************)
(* One dispatch on its own: every request of the bounded set is handled    *)
(* against every oracle, its reply is delivered or lost, and the client    *)
(* method that built the request matches on the outcome.                   *)
(***************************************************************************)
\* debug is cfg(debug_assertions) of the build
DStart(r, debug) ==
    [phase |-> "request", debug |-> debug, req |-> r, calls |-> <<>>,
     log |-> <<>>,
     res |-> None, reply |-> None, method |-> "-", ret |-> None,
     upd |-> None]

DInit ==
    /\ LifeInit
    /\ d \in { DStart(r, debug) : r \in Requests, debug \in BOOLEAN }

\* what the engine answered to the i-th call of a run; all_collections
\* has no error to report
Answer(call, oracle, i) ==
    IF call.method = "all_collections" THEN "Ok" ELSE oracle[i]

\* the task body `msg.handle(&toc_clone).await`
Dispatch ==
    /\ d.phase = "request"
    /\ \E oracle \in Oracles, pick \in 1..OracleLen :
          LET run == QdrantRequest_handle(d.req, oracle, pick, d.debug)
          IN d' = [d EXCEPT
                     !.phase = "handled",
                     !.calls = run.calls,
                     !.log = [i \in 1..Len(run.calls) |->
                                 Answer(run.calls[i], oracle, i)],
                     !.res = Some(run.res)]
    /\ UNCHANGED lifeVars

\* `resp_sender.send(res)` reaches the caller
Reply ==
    /\ d.phase = "handled"
    /\ d' = [d EXCEPT !.phase = "replied", !.reply = Some(d.res.v)]
    /\ UNCHANGED lifeVars

\* the reply slot is dropped unfulfilled
LoseReply ==
    /\ d.phase = "request"
    /\ d' = [d EXCEPT !.phase = "replied", !.reply = None]
    /\ UNCHANGED lifeVars

\* the end of send_request and the match of the client method that built
\* the request
ClientReturn ==
    /\ d.phase = "replied"
    /\ \E method \in ClientMethods :
          /\ MethodRequest(method) = <<d.req.family, d.req.op>>
          /\ d' = [d EXCEPT
                     !.phase = "returned",
                     !.method = method,
                     !.ret = Some(ClientMethod(method,
                                               send_request(d.reply)))]
    /\ UNCHANGED lifeVars

\* get_shard_selector_for_update on the shard key of the request and any
\* shard id
Resolve ==
    /\ d.phase = "request"
    /\ \E shard_selection \in ShardIdOpts :
          d' = [d EXCEPT
                  !.phase = "resolved",
                  !.upd = Some([shard_selection |-> shard_selection,
                                shard_key |-> d.req.shard_key,
                                out |-> get_shard_selector_for_update(
                                    shard_selection, d.req.shard_key,
                                    d.debug)])]
    /\ UNCHANGED lifeVars

DNext ==
    \/ Dispatch
    \/ Reply
    \/ LoseReply
    \/ ClientReturn
    \/ Resolve

DispatchSpec == DInit /\ [][DNext]_vars

(***************************************************************************)
(* Fairness: the worker thread, the spawned tasks, a caller polling its    *)
(* own future and the thread inside Drop are all scheduled, so a step one  *)
(* of them can take is not put off forever.  Starting calls, cloning,      *)
(* releasing and abandoning are up to the host program.                    *)
(***************************************************************************)
Worker ==
    \/ WorkerStartOk
    \/ WorkerStartFail
    \/ WorkerRecv
    \/ WorkerClose
    \/ WorkerUnwrap
    \/ WorkerDropToc
    \/ WorkerSignal

Task(c) == TaskHandle(c) \/ TaskSend(c) \/ TaskRelease(c)

Progress ==
    \/ Worker
    \/ \E c \in CallIds : Task(c)
    \/ \E c \in CallIds : CallSend(c)
    \/ \E c \in CallIds : CallReturn(c)
    \/ DropPollDone

FairSpec == Spec /\ WF_vars(Progress)

(***************************************************************************)
(* A slow task: the engine call of one task may take for ever, everything  *)
(* else is scheduled as in FairSpec.                                       *)
(***************************************************************************)
SlowTask == CHOOSE c \in CallIds : \A e \in CallIds : c <= e

SlowProgress ==
    \/ Worker
    \/ \E c \in CallIds \ {SlowTask} : Task(c)
    \/ \E c \in CallIds : CallSend(c)
    \/ \E c \in CallIds : CallReturn(c)
    \/ DropPollDone

SlowTaskSpec == Spec /\ WF_vars(SlowProgress)

(***************************************************************************)
(* Panics.  A panic inside a spawned task is caught by the runtime, which  *)
(* drops the task's future: resp_sender is dropped unfulfilled and         *)
(* toc_clone is released; nothing awaits the JoinHandle.  A panic of the   *)
(* "qdrant" thread inside the recv loop unwinds the closure: the future    *)
(* of block_on (rx, toc), toc_clone and terminated_tx are dropped.         *)
(***************************************************************************)
TaskPanic_replies(c) ==
    /\ tasks[c].pc = "handle"
    /\ tasks' = [tasks EXCEPT ![c].pc = "done", ![c].res = Some(Panic)]
    /\ holders' = holders - 1
    /\ calls' = [calls EXCEPT
                    ![c].slot = "filled",
                    ![c].reply = Some(Err(OwnErr("ServiceError", "panic")))]
    /\ UNCHANGED <<wpc, engine, teardowns, queue, txAlive, rxAlive, termTx,
                   termRx, signals, handles, dpc, atClose, d>>

TaskPanic_leaks(c) ==
    /\ tasks[c].pc = "handle"
    /\ tasks' = [tasks EXCEPT ![c].pc = "done", ![c].res = Some(Panic)]
    /\ calls' = [calls EXCEPT ![c].slot = "dropped"]
    /\ UNCHANGED <<wpc, engine, holders, teardowns, queue, txAlive, rxAlive,
                   termTx, termRx, signals, handles, dpc, atClose, d>>

\* msg.handle(&toc_clone) panics: the task ends without sending
TaskPanic(c) ==
    /\ tasks[c].pc = "handle"
    /\ tasks' = [tasks EXCEPT ![c].pc = "done", ![c].res = Some(Panic)]
    /\ holders' = holders - 1
    /\ calls' = [calls EXCEPT ![c].slot = "dropped"]
    /\ UNCHANGED <<wpc, engine, teardowns, queue, txAlive, rxAlive, termTx,
                   termRx, signals, handles, dpc, atClose, d>>

TaskPanicNext ==
    \/ Next
    \/ \E c \in CallIds : TaskPanic(c)

TaskPanicSpec ==
    Init /\ [][TaskPanicNext]_vars /\ WF_vars(Progress)

WorkerPanic_keeps_signal ==
    /\ wpc = "recv"
    /\ wpc' = "panicked"
    /\ rxAlive' = FALSE
    /\ queue' = <<>>
    /\ calls' = [c \in CallIds |->
                    IF \E i \in 1..Len(queue) : queue[i] = c
                    THEN [calls[c] EXCEPT !.slot = "dropped"]
                    ELSE calls[c]]
    /\ holders' = holders - 2
    /\ UNCHANGED <<engine, teardowns, txAlive, termTx, termRx, signals,
                   handles, dpc, tasks, atClose, d>>

\* the "qdrant" thread panics inside the recv loop
WorkerPanic ==
    /\ wpc = "recv"
    /\ wpc' = "panicked"
    /\ rxAlive' = FALSE
    /\ queue' = <<>>
    /\ calls' = [c \in CallIds |->
                    IF \E i \in 1..Len(queue) : queue[i] = c
                    THEN [calls[c] EXCEPT !.slot = "dropped"]
                    ELSE calls[c]]
    /\ holders' = holders - 2
    /\ termTx' = "dropped"
    /\ UNCHANGED <<engine, teardowns, txAlive, termRx, signals, handles,
                   dpc, tasks, atClose, d>>

\* the last clone of the Arc<TableOfContent> is released after the thread
\* panicked: the engine is dropped where that clone was held
OrphanDrop ==
    /\ wpc = "panicked"
    /\ engine = "live"
    /\ holders = 0
    /\ engine' = "dropped"
    /\ teardowns' = teardowns + 1
    /\ UNCHANGED <<wpc, holders, queue, txAlive, rxAlive, termTx, termRx,
                   signals, handles, dpc, calls, tasks, atClose, d>>

WorkerPanicNext ==
    \/ Next
    \/ WorkerPanic
    \/ OrphanDrop

WorkerPanicSpec ==
    /\ Init /\ [][WorkerPanicNext]_vars
    /\ WF_vars(Progress \/ OrphanDrop)

(***************************************************************************)
(* Properties of the life cycle                                            *)
(***************************************************************************)
Spawned(c) == tasks[c].pc # "none"
Running(c) == tasks[c].pc \in {"handle", "send", "release"}
\* the task made its engine call and sent, or tried to send, its reply
Replied(c) == tasks[c].pc \in {"release", "done"}
                /\ calls[c].slot \in {"filled", "dropped"}
EngineUnwrapped == wpc \in {"teardown", "signal", "exited"}

\* C1: the engine is taken out of its Arc, and dropped, only when the worker
\* is the sole holder: no dispatch task is running then, and every envelope
\* that was queued or in dispatch when the last client handle was released
\* has had its engine call finished and its reply sent or attempted.
C1_QuiescenceBarrier ==
    (EngineUnwrapped \/ engine = "dropped") =>
        /\ holders = 0
        /\ \A c \in CallIds : ~Running(c)
        /\ \A c \in atClose : tasks[c].pc = "done" /\ Replied(c)

C1_Witness ==
    /\ engine = "dropped"
    /\ \E c \in atClose :
          tasks[c].pc = "done" /\ calls[c].pc = "abandoned"

\* C2: terminated_tx.send(()) is called at most once, and only after the
\* engine was dropped.
C2_SignalOnceAfterTeardown ==
    /\ signals <= 1
    /\ (signals >= 1 \/ termTx = "sent") => engine = "dropped"

C2_Witness == signals = 1 /\ termTx = "sent" /\ engine = "dropped"

\* C3: the engine is dropped at most once, and once it was constructed and
\* the last client handle is released, it is eventually dropped exactly once.
C3_TeardownExactlyOnce ==
    /\ [](teardowns <= 1)
    /\ (engine = "live" /\ handles = 0) ~> (engine = "dropped")
    /\ [](engine = "dropped" => teardowns = 1)

C3_Witness == teardowns = 1 /\ handles = 0 /\ engine = "dropped"

QueueClosed == ~rxAlive \/ ~txAlive

\* C4: a send on a closed queue admits no envelope, and the call returns an
\* error (unless its caller abandons it first): it does not stay pending.
C4_ClosedSubmitFails ==
    /\ [](~rxAlive => queue = <<>>)
    /\ [](\A c \in CallIds : calls[c].refused => calls[c].slot = "dropped")
    /\ \A c \in CallIds :
          (calls[c].pc = "send" /\ QueueClosed)
             ~> \/ calls[c].pc = "abandoned"
                \/ calls[c].pc = "returned" /\ IsErr(calls[c].ret.v)

C4_Witness ==
    \E c \in CallIds :
        /\ calls[c].refused
        /\ calls[c].pc = "returned"
        /\ IsErr(calls[c].ret.v)
        /\ queue = <<>>

\* C5: a call whose send was refused because the queue is closed returns an
\* error of a "channel closed" category, which is not the "response lost"
\* error and not an engine error.
C5_ClosedIsDistinctError ==
    \A c \in CallIds :
        (calls[c].pc = "returned" /\ calls[c].refused) =>
            /\ IsErr(calls[c].ret.v)
            /\ calls[c].ret.v.e.variant
                  \notin {"ResponseRecv", "Storage", "Collection"}

C5_Witness ==
    \E c \in CallIds :
        /\ calls[c].refused
        /\ calls[c].pc = "returned"
        /\ calls[c].ret.v = Err(ResponseRecv)

\* C6: a call whose envelope was admitted and whose reply slot was dropped
\* unfulfilled returns QdrantError::ResponseRecv: not an engine error, not
\* a success and not a not-found result.
C6_ResponseLost ==
    \A c \in CallIds :
        (calls[c].pc = "returned" /\ ~calls[c].refused
            /\ calls[c].slot = "dropped") =>
                calls[c].ret.v = Err(ResponseRecv)

C6_Witness ==
    \E c \in CallIds :
        /\ calls[c].pc = "returned"
        /\ ~calls[c].refused
        /\ calls[c].slot = "dropped"
        /\ calls[c].method = "get_collection"

(***************************************************************************)
(* Properties of the dispatcher                                            *)
(***************************************************************************)
Dispatched ==
    d.phase \in {"handled", "replied", "returned"} /\ d.res.tag = "Some"

\* C7: a successful dispatch yields the response variant of the family and
\* sub-operation of its request.
C7_ResponseMirrorsRequest ==
    (Dispatched /\ IsOk(d.res.v)) =>
        /\ d.res.v.v.family = d.req.family
        /\ d.res.v.v.op = d.req.op

C7_Witness ==
    /\ Dispatched
    /\ IsOk(d.res.v)
    /\ d.req.family = "Points"
    /\ d.req.op = "OverwritePayload"

\* the calls made on the engine handle itself
TocCalls(calls_) ==
    Cardinality({ i \in 1..Len(calls_) : calls_[i].recv = "toc" })
Failed(log, i) == log[i] \in EngineErrorKinds
\* the runs of consecutive searches with the same shard key
Runs(searches) ==
    Cardinality({ i \in 1..Len(searches) :
                    i = 1 \/ searches[i].shard_key # searches[i-1].shard_key })

\* C8 as stated: every dispatch makes exactly one call on the engine handle.
C8_ExactlyOneEngineCall ==
    Dispatched => TocCalls(d.calls) = 1

\* C8 amended: every dispatch makes exactly one call on the engine handle,
\* except that delete-vectors makes one update per selector it carries
\* (filter, then points; the second only when the first succeeded; none when
\* it carries neither), create-collection makes a write-lock check before its
\* one operation, and search-batch makes one call per run of consecutive
\* searches with the same shard key (none for an empty batch).
C8_EngineCallsPerRequest ==
    Dispatched =>
        TocCalls(d.calls) =
            CASE d.req.family = "Points" /\ d.req.op = "DeleteVectors" ->
                    IF d.req.filter /\ d.req.points
                    THEN (IF Failed(d.log, 1) THEN 1 ELSE 2)
                    ELSE IF d.req.filter \/ d.req.points THEN 1 ELSE 0
              [] d.req.family = "Collection" /\ d.req.op = "Create" ->
                    IF Failed(d.log, 1) THEN 1 ELSE 2
              [] d.req.family = "Query" /\ d.req.op = "SearchBatch" ->
                    Runs(d.req.searches)
              [] OTHER -> 1

C8_Witness ==
    /\ Dispatched
    /\ d.req.op = "DeleteVectors"
    /\ d.req.filter /\ d.req.points
    /\ TocCalls(d.calls) = 2

\* the calls of the dispatch at which the engine reported an error
EngineReported == { i \in 1..Len(d.log) : Failed(d.log, i) }
IsEngineError(e) ==
    \E i \in EngineReported : e = [kind |-> d.log[i], at |-> i]
PassedThrough ==
    /\ Dispatched =>
          (EngineReported # {} =>
              IsErr(d.res.v) /\ IsEngineError(d.res.v.e))
    /\ (d.phase = "returned" /\ d.reply.tag = "Some"
            /\ IsErr(d.reply.v)) =>
          d.ret.v = Err(StorageError(d.reply.v.e))

\* C9 as stated: an engine error reaches the caller of every client method
\* as that error, and the dispatcher makes up no error of its own.
C9_OnlyEngineErrors ==
    /\ PassedThrough
    /\ (Dispatched /\ IsErr(d.res.v)) => IsEngineError(d.res.v.e)

\* C9 amended: an engine error reaches the caller of every client method as
\* that error (in QdrantError::Storage), and the dispatcher makes up an
\* error of its own in two cases only: delete-vectors with neither filter nor
\* points (bad request "No filter or points provided") and search when the
\* engine returns no result list (service error "Empty search result").
C9_EngineErrorsPassThrough ==
    /\ PassedThrough
    /\ (Dispatched /\ IsErr(d.res.v) /\ ~IsEngineError(d.res.v.e)) =>
          \/ /\ d.req.family = "Points" /\ d.req.op = "DeleteVectors"
             /\ ~d.req.filter /\ ~d.req.points
             /\ d.res.v.e = OwnErr("BadRequest",
                                   "No filter or points provided")
          \/ /\ d.req.family = "Query" /\ d.req.op = "Search"
             /\ d.log = <<"OkEmpty">>
             /\ d.res.v.e = OwnErr("ServiceError", "Empty search result")

C9_Witness ==
    /\ d.phase = "returned"
    /\ d.method = "get_collection"
    /\ d.reply.tag = "Some"
    /\ IsErr(d.reply.v)
    /\ d.reply.v.e.kind = "NotFound"
    /\ d.ret.v = Err(StorageError(d.reply.v.e))

BothSupplied ==
    /\ d.phase = "resolved"
    /\ d.upd.v.shard_selection.tag = "Some"
    /\ d.upd.v.shard_key.tag = "Some"

IsRead(req) ==
    \/ req.family = "Collection" /\ req.op = "Get"
    \/ req.family = "Points" /\ req.op \in {"Get", "Count"}
    \/ req.family = "Query"
IsWrite(req) ==
    req.family = "Points" /\ req.op \notin {"Get", "Count"}
\* the selectors the calls of a dispatch carried for the parts of the request
\* that name no shard key
UnkeyedSelectors ==
    { d.calls[i].shard :
        i \in { j \in 1..Len(d.calls) :
                  /\ d.calls[j].shard # NoShard
                  /\ d.calls[j].batch = <<>>
                  /\ d.req.shard_key = None } }
    \cup { d.calls[i].shard :
             i \in { j \in 1..Len(d.calls) :
                       /\ d.calls[j].shard # NoShard
                       /\ d.calls[j].batch # <<>>
                       /\ d.req.searches = <<>>
                       /\ d.req.shard_key = None } }
    \cup UNION { { d.calls[i].batch[k].shard :
                     k \in { m \in 1..Len(d.calls[i].batch) :
                               LET sid == d.calls[i].batch[m].sid
                               IN /\ sid <= Len(d.req.searches)
                                  /\ d.req.searches[sid].shard_key = None } }
                 \cup { d.calls[i].shard :
                          k \in { m \in 1..Len(d.calls[i].batch) :
                                    LET sid == d.calls[i].batch[m].sid
                                    IN /\ sid <= Len(d.req.searches)
                                       /\ d.req.searches[sid].shard_key = None
                                       /\ d.calls[i].shard # NoShard } } :
                 i \in 1..Len(d.calls) }
\* neither the engine nor an empty result list stands in the way of success
EngineWilling ==
    /\ \A i \in 1..Len(d.log) : d.log[i] = "Ok"
    /\ ~(d.req.op = "DeleteVectors" /\ ~d.req.filter /\ ~d.req.points)

\* C11: a read with no shard key is sent to all shards, a write with no
\* shard key (and no shard id) to the default (empty) selector; the two
\* selectors differ, and the missing selector makes neither fail.
C11_EmptySelectorAsymmetry ==
    /\ SelAll # SelEmpty
    /\ (Dispatched /\ IsRead(d.req)) => UnkeyedSelectors \subseteq {SelAll}
    /\ (Dispatched /\ IsWrite(d.req)) => UnkeyedSelectors \subseteq {SelEmpty}
    /\ (Dispatched /\ EngineWilling) => IsOk(d.res.v)

C11_Witness ==
    /\ Dispatched
    /\ d.req.family = "Query" /\ d.req.op = "RecommendBatch"
    /\ Len(d.req.searches) = 2
    /\ d.req.searches[1].shard_key = None
    /\ d.req.searches[2].shard_key # None
    /\ UnkeyedSelectors = {SelAll}
    /\ IsOk(d.res.v)

InQueue(c) == \E i \in 1..Len(queue) : queue[i] = c
\* the envelope of the call was put into the queue
Admitted(c) ==
    calls[c].pc \in {"await", "returned", "abandoned"} /\ ~calls[c].refused

\* C12: once the engine is up, an envelope leaves the queue only by being
\* dispatched; an envelope that is queued when the sender is dropped is
\* eventually dispatched and its engine call finished; and when the engine
\* is taken for teardown every admitted envelope has been dispatched and
\* its engine call has run to completion.
C12_DrainOnClose ==
    /\ [][engine = "live" =>
            \A c \in CallIds :
                InQueue(c) => (InQueue(c)' \/ tasks'[c].pc = "handle")]_vars
    /\ \A c \in CallIds :
          (InQueue(c) /\ ~txAlive /\ engine = "live")
             ~> (tasks[c].pc = "done" /\ tasks[c].res.tag = "Some")
    /\ []((EngineUnwrapped \/ engine = "dropped") =>
            /\ queue = <<>>
            /\ \A c \in CallIds :
                  Admitted(c) =>
                     tasks[c].pc = "done" /\ tasks[c].res.tag = "Some")

C12_Witness ==
    /\ engine = "dropped"
    /\ \E c \in CallIds :
          /\ tasks[c].late
          /\ tasks[c].pc = "done"
          /\ tasks[c].res.tag = "Some"

\* Terminated: the engine is dropped, the signal was sent and the thread
\* waiting in Drop for QdrantClient has seen it
Terminated ==
    /\ engine = "dropped"
    /\ signals = 1
    /\ dpc = "signalled"

\* C13: once the engine is up and the last client handle is released, the
\* system eventually is Terminated, and the waiter of an engine that was up
\* never gives up on a closed signal channel instead.
C13_ShutdownLiveness ==
    /\ (handles = 0 /\ engine = "live") ~> Terminated
    /\ [](dpc = "closed" => engine = "none")
    /\ [](Terminated => [] Terminated)

C13_Witness ==
    /\ Terminated
    /\ handles = 0
    /\ \E c \in atClose : tasks[c].pc = "done"

\* the termination state: 1 Active, 2 Closing, 3 Terminated
Phase ==
    IF engine = "dropped" /\ signals >= 1 THEN 3
    ELSE IF ~txAlive THEN 2
    ELSE 1

\* C14: the termination state never moves backwards; a closed end of the
\* queue stays closed and a closed queue takes no envelope; and once the
\* engine is dropped it stays dropped, no envelope is admitted, no task is
\* spawned and no task makes an engine call.
C14_MonotonicTermination ==
    /\ [][Phase' >= Phase]_vars
    /\ [][(~txAlive => ~txAlive') /\ (~rxAlive => ~rxAlive')]_vars
    /\ [][(~txAlive \/ ~rxAlive) => Len(queue') <= Len(queue)]_vars
    /\ [][engine = "dropped" =>
            /\ engine' = "dropped"
            /\ queue' = <<>>
            /\ \A c \in CallIds :
                  /\ tasks[c].pc = "none" => tasks'[c].pc = "none"
                  /\ tasks'[c].pc # "handle"
                  /\ tasks'[c].res = tasks[c].res]_vars

C14_Witness ==
    /\ Phase = 3
    /\ ~txAlive /\ ~rxAlive
    /\ wpc = "exited"
    /\ \E c \in CallIds : calls[c].pc = "returned" /\ Admitted(c)

\* C15: when the construction of the engine fails, no engine exists and no
\* task is ever spawned; no call made before the worker is up or after it
\* failed succeeds; and every call in progress at or after the failure
\* returns (an error) unless its caller abandons it.
C15_FatalStartup ==
    /\ [](wpc = "failed" =>
            /\ engine = "none"
            /\ \A c \in CallIds : tasks[c].pc = "none")
    /\ [](wpc \in {"starting", "failed"} =>
            \A c \in CallIds :
                calls[c].pc = "returned" => IsErr(calls[c].ret.v))
    /\ \A c \in CallIds :
          (wpc = "failed" /\ InProgress(c))
             ~> \/ calls[c].pc = "abandoned"
                \/ calls[c].pc = "returned" /\ IsErr(calls[c].ret.v)

C15_Witness ==
    /\ wpc = "failed"
    /\ \E c1, c2 \in CallIds :
          /\ Admitted(c1)
          /\ calls[c1].pc = "returned" /\ IsErr(calls[c1].ret.v)
          /\ calls[c2].refused
          /\ calls[c2].pc = "returned" /\ IsErr(calls[c2].ret.v)

Panicked(c) == tasks[c].res = Some(Panic)

\* C16 as stated: the caller of a request whose task panicked finds its
\* reply slot fulfilled with an error.
C16_PanicBecomesErrorReply ==
    \A c \in CallIds :
        Panicked(c) =>
            /\ calls[c].slot = "filled"
            /\ IsErr(calls[c].reply.v)

\* C16 amended: the reply slot of a request whose task panicked is dropped
\* unfulfilled, and its caller gets QdrantError::ResponseRecv.
C16_PanicDropsReplySlot ==
    \A c \in CallIds :
        Panicked(c) =>
            /\ tasks[c].pc = "done"
            /\ calls[c].slot = "dropped"
            /\ calls[c].reply = None
            /\ calls[c].pc = "returned" => calls[c].ret.v = Err(ResponseRecv)

C16_Witness ==
    \E c \in CallIds :
        /\ Panicked(c)
        /\ calls[c].pc = "returned"
        /\ calls[c].ret.v = Err(ResponseRecv)

\* the clones of the engine the "qdrant" thread holds itself
WorkerHolds ==
    CASE wpc = "recv" -> 2
      [] wpc = "unwrap" -> 1
      [] OTHER -> 0

\* C17: a task that panicked has released its clone of the engine (the
\* holders are the thread and the running tasks); the recv loop goes on:
\* every queued envelope is still dispatched (it leaves the queue only by
\* getting a task, and a moment comes when the queue is empty and every
\* task has ended), and a task that did not panic fulfils its reply slot
\* unless its caller has gone; and after the last client handle is released
\* the system still becomes Terminated.
C17_TaskPanicIsContained ==
    /\ [](engine = "live" =>
            holders = WorkerHolds + Cardinality({ c \in CallIds : Running(c) }))
    /\ [](\A c \in CallIds : Panicked(c) => ~Running(c))
    /\ [](\A c \in CallIds :
            (tasks[c].pc = "done" /\ ~Panicked(c)) =>
                \/ calls[c].slot = "filled"
                \/ calls[c].slot = "dropped" /\ calls[c].pc = "abandoned")
    /\ [][\A c \in CallIds :
            (engine = "live" /\ InQueue(c) /\ ~InQueue(c)') =>
                tasks[c].pc = "none" /\ tasks'[c].pc = "handle"]_vars
    /\ (queue # <<>> /\ engine = "live")
          ~> (queue = <<>> /\ \A c \in CallIds :
                                Spawned(c) => tasks[c].pc = "done")
    /\ (handles = 0 /\ engine = "live") ~> Terminated

C17_Witness ==
    /\ Terminated
    /\ \E c1, c2 \in CallIds :
          /\ Panicked(c1)
          /\ ~Panicked(c2)
          /\ tasks[c2].pc = "done"
          /\ calls[c2].pc = "returned"
          /\ IsOk(calls[c2].ret.v)

\* the envelope was admitted and the thread panicked before taking it
LostInQueue(c) ==
    wpc = "panicked" /\ Admitted(c) /\ tasks[c].pc = "none"

\* C18: when the "qdrant" thread panics in its recv loop, the envelopes in
\* the queue are dropped with their reply slots and every later send is
\* refused; the calls of both return QdrantError::ResponseRecv (unless
\* abandoned); and the thread waiting in Drop for QdrantClient finishes.
\* The last conjunct says both "eventually" parts at once: from any moment
\* after the panic a moment comes when every call made so far that has no
\* task is abandoned or has returned that error, and, if the last client
\* handle is released by then, the waiter has finished.
C18_WorkerPanicIsObservable ==
    /\ [](wpc = "panicked" => queue = <<>> /\ ~rxAlive)
    /\ [](\A c \in CallIds :
            (LostInQueue(c) \/ (wpc = "panicked" /\ calls[c].refused)) =>
                /\ calls[c].slot = "dropped"
                /\ calls[c].pc = "returned" =>
                       calls[c].ret.v = Err(ResponseRecv))
    /\ [][handles = 0 => handles' = 0]_vars
    /\ (wpc = "panicked")
          ~> /\ \A c \in CallIds :
                  (tasks[c].pc = "none" /\ calls[c].pc # "idle") =>
                     \/ calls[c].pc = "abandoned"
                     \/ calls[c].pc = "returned"
                        /\ calls[c].ret.v = Err(ResponseRecv)
             /\ handles = 0 => dpc = "closed"

C18_Witness ==
    /\ wpc = "panicked"
    /\ dpc = "closed"
    /\ \E c1, c2 \in CallIds :
          /\ LostInQueue(c1)
          /\ calls[c1].ret = Some(Err(ResponseRecv))
          /\ calls[c2].refused
          /\ calls[c2].ret = Some(Err(ResponseRecv))

QueueFull == Len(queue) = ChannelBuffer
\* the call is suspended in sender.send: the queue is full and open
Suspended(c) == calls[c].pc = "send" /\ QueueFull /\ rxAlive

\* C19: the queue never holds more envelopes than its capacity; a call whose
\* send finds the queue full and open neither fails nor loses its envelope
\* but stays in the send, and once the worker is taking envelopes it is
\* admitted.
C19_Backpressure ==
    /\ ChannelBuffer <= QDRANT_CHANNEL_BUFFER
    /\ [](Len(queue) <= ChannelBuffer)
    /\ [][\A c \in CallIds :
            Suspended(c) =>
                /\ calls'[c].pc = "send"
                /\ calls'[c].slot = "open"
                /\ ~calls'[c].refused]_vars
    /\ \A c \in CallIds :
          (Suspended(c) /\ wpc = "recv") ~> (Admitted(c) /\ Spawned(c))

C19_Witness ==
    \E c1, c2 \in CallIds :
        /\ Suspended(c1)
        /\ wpc = "recv"
        /\ InQueue(c2)
        /\ calls[c1].slot = "open"

\* C20: while the slow task is still in its engine call (and even if it
\* never leaves it), an envelope waiting in the queue is taken, handled and
\* its reply sent or attempted.
C20_AdmissionDecoupled ==
    \A c \in CallIds \ {SlowTask} :
        (InQueue(c) /\ Running(SlowTask) /\ wpc = "recv")
            ~> (Replied(c) /\ tasks[c].res.tag = "Some")

C20_Witness ==
    /\ tasks[SlowTask].pc = "handle"
    /\ \E c \in CallIds \ {SlowTask} :
          /\ tasks[c].pc = "done"
          /\ calls[c].slot = "filled"
          /\ calls[c].pc = "returned"

\* the engine call of the task has returned
HandleDone(c) ==
    tasks[c].pc \in {"send", "release", "done"} /\ tasks[c].res.tag = "Some"

\* C21: a reply slot is fulfilled only by a task whose engine call has
\* returned, and the reply in it is the result of that call.
C21_ReplyAfterCompletion ==
    /\ [](\A c \in CallIds :
            calls[c].slot = "filled" =>
                /\ HandleDone(c)
                /\ ~Panicked(c)
                /\ calls[c].reply = tasks[c].res)
    /\ [][\A c \in CallIds :
            (calls[c].slot # "filled" /\ calls'[c].slot = "filled") =>
                /\ HandleDone(c)
                /\ tasks[c].pc = "send"
                /\ calls'[c].reply = tasks[c].res]_vars

C21_Witness ==
    \E c \in CallIds :
        /\ calls[c].slot = "filled"
        /\ tasks[c].pc = "release"
        /\ calls[c].reply = tasks[c].res
        /\ IsErr(calls[c].reply.v)

\* what send_request and the client method make of the content of the slot
Outcome(c) ==
    ClientMethod(calls[c].method,
                 send_request(IF calls[c].slot = "filled"
                              THEN Some(calls[c].reply.v) ELSE None))

\* C22: a reply slot that is filled or dropped never changes again, and it
\* is filled only by the task spawned for its own envelope; a call returns
\* once, with the outcome of its own slot, and a returned call never
\* changes.
C22_ReplySlotSingleUse ==
    /\ [][\A c \in CallIds :
            calls[c].slot \in {"filled", "dropped"} =>
                /\ calls'[c].slot = calls[c].slot
                /\ calls'[c].reply = calls[c].reply]_vars
    /\ [][\A c \in CallIds :
            (calls[c].slot = "open" /\ calls'[c].slot = "filled") =>
                /\ tasks[c].pc = "send" /\ tasks'[c].pc = "release"
                /\ calls'[c].reply = tasks[c].res]_vars
    /\ [][\A c \in CallIds :
            calls[c].pc = "returned" => calls'[c] = calls[c]]_vars
    /\ [](\A c \in CallIds :
            calls[c].pc = "returned" =>
                /\ calls[c].slot \in {"filled", "dropped"}
                /\ calls[c].ret = Some(Outcome(c))
                /\ calls[c].slot = "filled" => calls[c].reply = tasks[c].res)

C22_Witness ==
    \E c1, c2 \in CallIds :
        /\ calls[c1].pc = "returned" /\ calls[c2].pc = "returned"
        /\ calls[c1].slot = "filled" /\ calls[c2].slot = "filled"
        /\ calls[c1].reply = tasks[c1].res /\ IsOk(calls[c1].reply.v)
        /\ calls[c2].reply = tasks[c2].res /\ IsErr(calls[c2].reply.v)

\* how many envelopes of the call are in the queue
Queued(c) == Cardinality({ i \in 1..Len(queue) : queue[i] = c })

\* C23: a call puts at most one envelope into the queue, in its one send,
\* and never sends again whatever its outcome; an envelope gets a task only
\* by being taken from the queue, and gets no second one.
C23_NoRetry ==
    /\ [](\A c \in CallIds :
            /\ Queued(c) <= 1
            /\ Spawned(c) => Queued(c) = 0
            /\ calls[c].refused => Queued(c) = 0 /\ ~Spawned(c))
    /\ [][\A c \in CallIds :
            /\ Queued(c)' > Queued(c) =>
                  calls[c].pc = "send" /\ calls'[c].pc = "await"
            /\ calls[c].pc \in {"await", "returned", "abandoned"} =>
                  calls'[c].pc # "send"
            /\ (tasks'[c].pc = "handle" /\ tasks[c].pc # "handle") =>
                  tasks[c].pc = "none" /\ Queued(c) = 1 /\ Queued(c)' = 0
            /\ Spawned(c) => Spawned(c)']_vars

C23_Witness ==
    \E c1, c2 \in CallIds :
        /\ calls[c1].pc = "returned" /\ Admitted(c1)
        /\ calls[c1].ret = Some(Err(ResponseRecv))
        /\ ~Spawned(c1) /\ Queued(c1) = 0
        /\ calls[c2].pc = "returned" /\ calls[c2].refused

(***************************************************************************)
(* Searches in a collection the engine does not have: the life cycle with  *)
(* search_points as its call; the engine answers every search with "not    *)
(* found".                                                                 *)
(***************************************************************************)
SearchCalls == { <<"search_points", PlainReq("-", "-")>> }
\* the engine's answers about a collection it does not have
MissingOracle == [i \in 1..OracleLen |-> "NotFound"]

\* `let res = msg.handle(&toc_clone).await;` with those answers
SearchHandle(c) ==
    /\ tasks[c].pc = "handle"
    /\ \E debug \in BOOLEAN :
          tasks' = [tasks EXCEPT
                      ![c].pc = "send",
                      ![c].res = Some(QdrantRequest_handle(calls[c].req,
                                                           MissingOracle, 1,
                                                           debug).res)]
    /\ UNCHANGED <<wpc, engine, holders, teardowns, queue, txAlive,
                   rxAlive, termTx, termRx, signals, handles, dpc, calls,
                   atClose, d>>

SearchNext ==
    \/ WorkerStartOk
    \/ WorkerStartFail
    \/ WorkerRecv
    \/ WorkerClose
    \/ WorkerUnwrap
    \/ WorkerWait
    \/ WorkerDropToc
    \/ WorkerSignal
    \/ \E c \in CallIds : SearchHandle(c)
    \/ \E c \in CallIds : TaskSend(c)
    \/ \E c \in CallIds : TaskRelease(c)
    \/ CloneHandle
    \/ ReleaseHandle
    \/ DropClient
    \/ DropPollEmpty
    \/ DropPollDone
    \/ \E c \in CallIds, call \in SearchCalls :
          CallStart(c, call[1], call[2])
    \/ \E c \in CallIds : CallSend(c)
    \/ \E c \in CallIds : CallReturn(c)
    \/ \E c \in CallIds : CallAbandon(c)

SearchProgress ==
    \/ Worker
    \/ \E c \in CallIds : SearchHandle(c) \/ TaskSend(c) \/ TaskRelease(c)
    \/ \E c \in CallIds : CallSend(c)
    \/ \E c \in CallIds : CallReturn(c)
    \/ DropPollDone

SearchSpec ==
    Init /\ [][SearchNext]_vars /\ WF_vars(SearchProgress)

\* the error every search in the missing collection must come back with
CollectionMissing == Err(StorageError(EngineErr(MissingOracle, 1)))
IsSearch(c) == calls[c].method = "search_points"

\* C24: every search that reached an engine which reports the collection as
\* missing, however many are in flight together, returns the same engine
\* not-found error; an
\* admitted search does not stay pending; and answering one neither stops
\* the worker loop nor takes the engine away, so that a call admitted later
\* is answered too.
C24_ConcurrentNotFound ==
    /\ [](\A c \in CallIds :
            (IsSearch(c) /\ Spawned(c) /\ calls[c].pc = "returned")
                => calls[c].ret = Some(CollectionMissing))
    /\ \A c \in CallIds :
          (IsSearch(c) /\ Admitted(c) /\ calls[c].pc = "await")
             ~> calls[c].pc \in {"returned", "abandoned"}
    /\ [][(\E c \in CallIds :
              /\ IsSearch(c)
              /\ \/ tasks[c].pc = "handle" /\ tasks'[c].pc = "send"
                 \/ tasks[c].pc = "send" /\ tasks'[c].pc = "release"
                 \/ calls[c].pc = "await" /\ calls'[c].pc = "returned")
          => UNCHANGED <<wpc, engine, rxAlive, queue>>]_vars
    /\ \A c \in CallIds :
          ((\E e \in CallIds \ {c} :
               IsSearch(e) /\ calls[e].ret = Some(CollectionMissing))
           /\ Admitted(c) /\ calls[c].pc = "await")
             ~> calls[c].pc \in {"returned", "abandoned"}

\* all the searches were in flight together and all came back with the
\* error, and the worker is still in its loop
C24_Witness ==
    /\ \A c \in CallIds :
          /\ IsSearch(c) /\ calls[c].pc = "returned"
          /\ calls[c].ret = Some(CollectionMissing)
          /\ tasks[c].pc = "done" /\ ~tasks[c].late
    /\ wpc = "recv" /\ rxAlive /\ engine = "live"

\* C25: the one sender of the queue lives exactly as long as some clone of
\* the client does, and is dropped only in the step that releases the last
\* clone; releasing any other clone changes nothing but the count of clones;
\* while a clone lives the worker does not leave its receive loop, and a
\* send made while the worker is in that loop is never refused and is
\* eventually admitted.
C25_SharedProducer ==
    /\ [](txAlive <=> handles >= 1)
    /\ [](handles >= 1 =>
            /\ wpc \in {"starting", "recv", "failed"}
            /\ dpc = "none"
            /\ wpc = "recv" => rxAlive /\ engine = "live")
    /\ [][txAlive /\ ~txAlive' => handles = 1 /\ handles' = 0]_vars
    /\ [][(handles' < handles /\ handles' >= 1) =>
            UNCHANGED <<wpc, engine, holders, teardowns, queue, txAlive,
                        rxAlive, termTx, termRx, signals, dpc, calls, tasks,
                        atClose>>]_vars
    /\ [][\A c \in CallIds :
            (calls[c].pc = "send" /\ calls'[c].pc = "await" /\ wpc = "recv")
               => /\ handles >= 1
                  /\ ~calls'[c].refused
                  /\ queue' = Append(queue, c)]_vars
    /\ \A c \in CallIds :
          (calls[c].pc = "send" /\ wpc = "recv") ~> Admitted(c)

\* the client has clones, and the calls made through them are all admitted
\* and dispatched while the sender lives
C25_Witness ==
    /\ handles = MaxHandles
    /\ txAlive /\ wpc = "recv"
    /\ \A c \in CallIds : Admitted(c) /\ Spawned(c) /\ ~tasks[c].late

\* C26: a try_recv that finds no signal yet only sends the waiter to sleep
\* (and one after a sleep changes nothing at all): it keeps the receiver,
\* and leaves the signal channel, the engine, the worker and everything
\* else as they were; the waiter leaves its loop only
\* when the signal was sent or its sender dropped, and the receiver is given
\* up only then; a signal that is sent while the waiter waits is still
\* there for the try_recv that comes after the sleep, which observes it.
C26_EarlyCheckIsHarmless ==
    /\ [][(dpc = "polling" /\ dpc' = "sleeping") =>
            /\ termTx = "alive"
            /\ UNCHANGED <<wpc, engine, holders, teardowns, queue, txAlive,
                           rxAlive, termTx, termRx, signals, handles, calls,
                           tasks>>]_vars
    /\ [][(dpc \in {"polling", "sleeping"}
           /\ dpc' \notin {"polling", "sleeping"}) =>
            /\ termTx # "alive"
            /\ dpc' = "signalled" <=> termTx = "sent"]_vars
    /\ [](dpc \in {"polling", "sleeping"} => termRx = "alive")
    /\ [](termRx = "dropped" => dpc \in {"signalled", "closed"})
    /\ (dpc \in {"polling", "sleeping"} /\ termTx = "sent")
          ~> (dpc = "signalled")

\* the waiter found no signal while the engine was still up and went to
\* sleep; the receiver is still there
C26_Witness ==
    /\ dpc = "sleeping"
    /\ engine = "live" /\ termTx = "alive" /\ termRx = "alive"
    /\ signals = 0

\* C27: the envelope of a call whose caller gave up after it was admitted
\* is dispatched all the same once the engine is up, and its engine call
\* returns; the reply that can no longer be delivered is dropped in a step
\* that changes nothing of the worker, the engine, the queue or the other
\* tasks; and every other admitted envelope is dispatched to its end too.
C27_AbandonDoesNotCancel ==
    /\ [](\A c \in CallIds :
            (calls[c].pc = "abandoned" /\ Admitted(c)
             /\ tasks[c].pc \in {"send", "release", "done"})
                => tasks[c].res.tag = "Some")
    /\ [][\A c \in CallIds :
            (calls[c].pc = "abandoned"
             /\ tasks[c].pc = "send" /\ tasks'[c].pc # "send")
               => /\ tasks'[c].pc = "release"
                  /\ calls'[c].slot = "dropped"
                  /\ UNCHANGED <<wpc, engine, holders, queue, rxAlive>>
                  /\ \A e \in CallIds \ {c} :
                        tasks'[e] = tasks[e] /\ calls'[e] = calls[e]]_vars
    /\ \A e \in CallIds :
          ((\E c \in CallIds : calls[c].pc = "abandoned" /\ Admitted(c))
           /\ Admitted(e) /\ engine = "live")
             ~> (tasks[e].pc = "done" /\ tasks[e].res.tag = "Some")

\* an abandoned call whose engine call was made and whose reply was
\* dropped, and another call answered by the worker, which is still in its
\* loop
C27_Witness ==
    \E c, e \in CallIds :
        /\ calls[c].pc = "abandoned" /\ Admitted(c)
        /\ tasks[c].pc = "done" /\ tasks[c].res.tag = "Some"
        /\ calls[c].slot = "dropped"
        /\ calls[e].pc = "returned" /\ calls[e].slot = "filled"
        /\ IsOk(calls[e].ret.v)
        /\ wpc = "recv" /\ engine = "live"

\* C28 as stated: the surface has 5 collection, 5 alias, 10 points and 6
\* query operations, and the request of every dispatch is one that some
\* client method builds.
C28_EveryVariantHasMethod ==
    /\ Cardinality(CollectionOps) = 5 /\ Cardinality(AliasOps) = 5
    /\ Cardinality(PointsOps) = 10 /\ Cardinality(QueryOps) = 6
    /\ \E method \in ClientMethods :
          MethodRequest(method) = <<d.req.family, d.req.op>>

\* PointsRequest::OverwritePayload is handled, and answered by the engine,
\* but none of the client methods builds it
C28_Witness ==
    /\ Dispatched
    /\ IsOk(d.res.v)
    /\ d.res.v.v.op = "OverwritePayload"
    /\ d.req.family = "Points" /\ d.req.op = "OverwritePayload"
    /\ \A method \in ClientMethods :
          MethodRequest(method) # <<d.req.family, d.req.op>>

\* C29: at all times the holders of the engine are the clones the "qdrant"
\* thread holds itself and one clone for each task that was spawned and has
\* not ended; a task gets its clone when the thread spawns it from its recv
\* loop, and gives it up in its last step, after its reply was sent or the
\* send had failed; a task that has ended holds nothing.
C29_HolderAccounting ==
    /\ [](holders = WorkerHolds + Cardinality({ c \in CallIds : Running(c) }))
    /\ [][\A c \in CallIds :
            /\ (Running(c) /\ ~Running(c)') =>
                  /\ tasks[c].pc = "release" /\ tasks'[c].pc = "done"
                  /\ calls[c].slot \in {"filled", "dropped"}
                  /\ holders' = holders - 1
            /\ (~Running(c) /\ Running(c)') =>
                  /\ tasks[c].pc = "none" /\ wpc = "recv"
                  /\ holders' = holders + 1
            /\ tasks[c].pc = "done" => tasks'[c].pc = "done"]_vars
    /\ [](wpc \in {"teardown", "signal", "exited"} => holders = 0)

\* one task has ended and given up its clone while another still runs and
\* holds its own
C29_Witness ==
    \E c1, c2 \in CallIds :
        /\ tasks[c1].pc = "done" /\ calls[c1].slot = "filled"
        /\ tasks[c2].pc = "handle"
        /\ wpc = "recv" /\ holders = 3

\* C30: the release of the last clone of the client starts by dropping the
\* sender of the queue and then waits; it returns, and it does return, only
\* when it has seen the signal or seen that the signal's sender was dropped
\* unsent; it sees the dropped sender only if the "qdrant" thread failed to
\* start or panicked, so when the thread did neither the release returns
\* with the signal seen, the engine dropped once and the thread at its end.
C30_ReleaseIsBarrier ==
    /\ [][(dpc = "none" /\ dpc' # "none") =>
            /\ dpc' = "polling"
            /\ handles = 1 /\ handles' = 0
            /\ txAlive /\ ~txAlive']_vars
    /\ [](dpc # "none" => ~txAlive /\ handles = 0)
    /\ [](dpc = "signalled" => termTx = "sent")
    /\ [](dpc = "closed" =>
            termTx = "dropped" /\ wpc \in {"failed", "panicked"})
    /\ []((dpc \in {"signalled", "closed"}
           /\ wpc \notin {"failed", "panicked"}) =>
            /\ dpc = "signalled"
            /\ engine = "dropped" /\ teardowns = 1 /\ holders = 0
            /\ wpc = "exited")
    /\ (handles = 0) ~> (dpc \in {"signalled", "closed"})

\* the release has returned with the signal seen: the thread ran to its
\* end and the engine, which had served a call, is dropped
C30_Witness ==
    /\ dpc = "signalled"
    /\ wpc = "exited" /\ engine = "dropped" /\ ~txAlive
    /\ termRx = "dropped"
    /\ \E c \in CallIds : tasks[c].pc = "done" /\ calls[c].pc = "returned"

\* C31 as stated: get_collection returns Ok(None) when the engine reported
\* the collection as not found, Ok(Some(info)) when the engine answered,
\* and an error for any other engine error and for a lost reply.
C31_NotFoundIsNone ==
    (d.phase = "returned" /\ d.method = "get_collection") =>
        IF d.reply.tag = "None" THEN IsErr(d.ret.v)
        ELSE IF IsOk(d.reply.v)
             THEN d.ret.v = Ok(Some(d.reply.v.v.payload))
        ELSE IF d.reply.v.e.kind = "NotFound" THEN d.ret.v = Ok(None)
        ELSE IsErr(d.ret.v)

\* toc.get_collection did not find the collection, and get_collection
\* returned the engine's error in QdrantError::Storage, not Ok(None)
C31_Witness ==
    /\ d.phase = "returned"
    /\ d.method = "get_collection"
    /\ d.log = <<"NotFound">>
    /\ d.ret.v = Err(StorageError(EngineErr(<<"NotFound">>, 1)))
    /\ d.ret.v # Ok(None)

\* C32: the response of a successful dispatch is of the variant that the
\* match of every client method building the request accepts, and no
\* client method ends in its `res => panic!("Unexpected response")` arm:
\* it returns the payload of the response, or an error.
C32_NoUnexpectedResponse ==
    /\ (Dispatched /\ IsOk(d.res.v)) =>
          \A method \in ClientMethods :
              MethodRequest(method) = <<d.req.family, d.req.op>> =>
                  MethodAccepts(method) = <<d.res.v.v.family, d.res.v.v.op>>
    /\ d.phase = "returned" =>
          /\ d.ret.v # Panic
          /\ MethodRequest(d.method) = <<d.req.family, d.req.op>>
          /\ (d.reply.tag = "Some" /\ IsOk(d.reply.v)) =>
                /\ IsOk(d.ret.v)
                /\ <<d.reply.v.v.family, d.reply.v.v.op>>
                      = MethodAccepts(d.method)

\* a client method has matched the response to its request and returned
\* its payload
C32_Witness ==
    /\ d.phase = "returned"
    /\ d.method = "recommend_points_batch"
    /\ d.reply.tag = "Some" /\ IsOk(d.reply.v)
    /\ d.reply.v.v.op = "RecommendBatch"
    /\ d.ret.v = Ok(d.reply.v.v.payload)

\* C33: in a build with debug assertions and in one without, no request
\* makes the dispatcher panic, and every update call a points request makes
\* goes to the selector of the request's shard key, or to the empty
\* (default shard) selector when it has none: never to a shard id.
C33_NoShardIdOnWritePaths ==
    Dispatched =>
        /\ d.res.v # Panic
        /\ d.req.family = "Points" =>
              \A i \in 1..Len(d.calls) :
                  d.calls[i].method = "update" =>
                      /\ d.calls[i].shard.tag # "ShardId"
                      /\ d.calls[i].shard =
                            IF d.req.shard_key.tag = "Some"
                            THEN SelFromKey(d.req.shard_key.v)
                            ELSE SelEmpty

\* a write with a shard key, dispatched in a build with debug assertions:
\* the update went to the selector of the key
C33_Witness ==
    /\ Dispatched
    /\ d.debug
    /\ d.req.family = "Points" /\ d.req.op = "Upsert"
    /\ d.req.shard_key.tag = "Some"
    /\ Len(d.calls) = 1
    /\ d.calls[1].method = "update"
    /\ d.calls[1].shard.tag \in {"ShardKey", "ShardKeys"}

\* C34: a delete-vectors request with neither a filter nor a list of points
\* is answered with the bad request "No filter or points provided" whatever
\* the engine would have answered, no call is made on the engine, and the
\* caller of delete_vectors gets that error when the reply reaches it.
C34_EmptyDeleteVectorsRejected ==
    (Dispatched /\ d.req.family = "Points" /\ d.req.op = "DeleteVectors"
        /\ ~d.req.filter /\ ~d.req.points) =>
        /\ d.res.v = Err(OwnErr("BadRequest", "No filter or points provided"))
        /\ d.calls = <<>>
        /\ d.log = <<>>
        /\ (d.phase = "returned" /\ d.reply.tag = "Some") =>
              d.ret.v = Err(StorageError(
                  OwnErr("BadRequest", "No filter or points provided")))

\* delete_vectors was called with neither and has returned the error
C34_Witness ==
    /\ d.phase = "returned"
    /\ d.method = "delete_vectors"
    /\ ~d.req.filter /\ ~d.req.points
    /\ d.calls = <<>>
    /\ d.reply.tag = "Some"
    /\ d.ret.v = Err(StorageError(
           OwnErr("BadRequest", "No filter or points provided")))

\* C35: a delete-vectors request with a filter and a list of points first
\* updates by the filter and then by the points, on the same selector; when
\* the first update fails the second is not made and the error of the first
\* is the result; otherwise the result is that of the second update, its
\* error when it fails.
C35_FilterThenPoints ==
    (Dispatched /\ d.req.family = "Points" /\ d.req.op = "DeleteVectors"
        /\ d.req.filter /\ d.req.points) =>
        /\ Len(d.calls) >= 1
        /\ d.calls[1].method = "update"
        /\ d.calls[1].op = "DeleteVectorsByFilter"
        /\ IF d.log[1] \in EngineErrorKinds
           THEN /\ Len(d.calls) = 1
                /\ IsErr(d.res.v)
                /\ d.res.v.e.kind = d.log[1] /\ d.res.v.e.at = 1
           ELSE /\ Len(d.calls) = 2
                /\ d.calls[2].method = "update"
                /\ d.calls[2].op = "DeleteVectors"
                /\ d.calls[2].shard = d.calls[1].shard
                /\ IF d.log[2] \in EngineErrorKinds
                   THEN /\ IsErr(d.res.v)
                        /\ d.res.v.e.kind = d.log[2] /\ d.res.v.e.at = 2
                   ELSE /\ IsOk(d.res.v)
                        /\ d.res.v.v.payload = EngineVal(2)

\* both updates were made and the caller got the result of the second
C35_Witness ==
    /\ d.phase = "returned"
    /\ d.method = "delete_vectors"
    /\ d.req.filter /\ d.req.points
    /\ Len(d.calls) = 2
    /\ d.calls[1].op = "DeleteVectorsByFilter"
    /\ d.calls[2].op = "DeleteVectors"
    /\ d.ret.v = Ok(EngineVal(2))


\* C36: a write request that names a shard key (and is given no shard id) is
\* carried out by update calls that all target exactly that key: the one key
\* of a single-key selector, the same list of keys of a multi-key selector,
\* never the default selector or all shards.  This holds for each of the
\* eight write operations, which makes at least one update call unless it is
\* a delete-vectors with neither filter nor points, and the operation handed
\* to the engine is the one of the request.
C36_ShardKeyForwarded ==
    (Dispatched /\ IsWrite(d.req) /\ d.req.shard_key.tag = "Some") =>
        LET sk == d.req.shard_key.v
            ops == { d.calls[i].op : i \in 1..Len(d.calls) }
        IN  /\ \A i \in 1..Len(d.calls) :
                  /\ d.calls[i].method = "update"
                  /\ d.calls[i].shard \notin {SelEmpty, SelAll, NoShard}
                  /\ sk.kind = "ShardKey" =>
                        d.calls[i].shard = [tag |-> "ShardKey", key |-> sk.key]
                  /\ sk.kind = "ShardKeys" =>
                        d.calls[i].shard =
                            [tag |-> "ShardKeys", keys |-> sk.keys]
            /\ (d.req.op = "DeleteVectors" /\ ~d.req.filter /\ ~d.req.points)
                  <=> d.calls = <<>>
            /\ CASE d.req.op = "Upsert" -> ops = {"UpsertPoints"}
                 [] d.req.op = "Delete" ->
                        ops = IF d.req.sel = "PointIdsSelector"
                              THEN {"DeletePoints"}
                              ELSE {"DeletePointsByFilter"}
                 [] d.req.op = "UpdateVectors" -> ops = {"UpdateVectors"}
                 [] d.req.op = "DeleteVectors" ->
                        ops \subseteq {"DeleteVectorsByFilter", "DeleteVectors"}
                 [] d.req.op = "SetPayload" -> ops = {"SetPayload"}
                 [] d.req.op = "OverwritePayload" -> ops = {"OverwritePayload"}
                 [] d.req.op = "DeletePayload" -> ops = {"DeletePayload"}
                 [] d.req.op = "ClearPayload" ->
                        ops = IF d.req.sel = "PointIdsSelector"
                              THEN {"ClearPayload"}
                              ELSE {"ClearPayloadByFilter"}

\* a clear-payload by filter that names two shard keys was carried out by one
\* update on those two keys
C36_Witness ==
    /\ Dispatched
    /\ d.req.family = "Points" /\ d.req.op = "ClearPayload"
    /\ d.req.sel = "FilterSelector"
    /\ d.req.shard_key = Some([kind |-> "ShardKeys", keys |-> <<"k1", "k2">>])
    /\ Len(d.calls) = 1
    /\ d.calls[1].op = "ClearPayloadByFilter"
    /\ d.calls[1].shard = [tag |-> "ShardKeys", keys |-> <<"k1", "k2">>]


C38_EarlyEnvelopeNotLost ==
    /\ [](wpc = "starting" =>
            \A c \in CallIds :
                Admitted(c) =>
                    /\ InQueue(c)
                    /\ tasks[c].pc = "none"
                    /\ calls[c].slot = "open")
    /\ [][\A c \in CallIds :
            /\ (wpc = "starting" /\ InQueue(c)) =>
                  \/ InQueue(c)'
                  \/ wpc' = "failed" /\ calls'[c].slot = "dropped"
            /\ (tasks[c].pc # "handle" /\ tasks'[c].pc = "handle") =>
                  /\ tasks[c].pc = "none"
                  /\ InQueue(c) /\ ~InQueue(c)'
                  /\ engine = "live"]_vars
    /\ (wpc = "starting" /\ queue # <<>>)
          ~> \/ /\ engine # "none"
                /\ \A c \in CallIds : Admitted(c) => tasks[c].pc # "none"
             \/ /\ wpc = "failed"
                /\ \A c \in CallIds :
                      Admitted(c) =>
                          \/ calls[c].pc = "abandoned"
                          \/ /\ calls[c].pc = "returned"
                             /\ calls[c].ret.v = Err(ResponseRecv)

\* the construction failed with an envelope in the queue, and the call that
\* had put it there returned QdrantError::ResponseRecv
C38_Witness ==
    /\ wpc = "failed"
    /\ engine = "none"
    /\ \E c \in CallIds :
          /\ Admitted(c)
          /\ calls[c].slot = "dropped"
          /\ tasks[c].pc = "none"
          /\ calls[c].pc = "returned"
          /\ calls[c].ret.v = Err(ResponseRecv)


\* C39: a "qdrant" thread whose engine construction failed stays failed, has
\* no engine, has never sent the termination signal and has dropped the
\* signal's sender; the wait in Drop for QdrantClient goes on as long as the
\* sender is alive, whether the last handle was released before the failure
\* or after it, and with a failed thread it ends only by seeing the sender
\* dropped; and once the thread has failed and the last handle is released
\* the wait does end.
C39_FailedStartTeardownReturns ==
    /\ [](wpc = "failed" =>
            /\ engine = "none" /\ holders = 0 /\ teardowns = 0
            /\ signals = 0
            /\ termTx = "dropped")
    /\ [][/\ wpc = "failed" => wpc' = "failed"
          /\ (dpc \in {"polling", "sleeping"} /\ termTx' = "alive") =>
                dpc' \in {"polling", "sleeping"}
          /\ (wpc' = "failed" /\ dpc \in {"polling", "sleeping"}
                /\ dpc' \notin {"polling", "sleeping"}) =>
                /\ wpc = "failed"
                /\ dpc' = "closed"
                /\ termRx' = "dropped"]_vars
    /\ (wpc = "failed" /\ handles = 0) ~> (dpc = "closed")

\* the construction failed while the release of the last handle was already
\* waiting, or before it, and the release has returned on the dropped sender
C39_Witness ==
    /\ wpc = "failed"
    /\ handles = 0 /\ ~txAlive
    /\ dpc = "closed"
    /\ termTx = "dropped" /\ termRx = "dropped"
    /\ signals = 0 /\ engine = "none"

====
